---- MODULE Spec2Model ----
(***************************************************************************)
(* Model of the forecasting and portfolio-optimization engine of the       *)
(* DMAC stock application:                                                 *)
(*   Scripts/StockApp/analysis_logic.py   grid order search, ARIMA forecast *)
(*   Scripts/StockApp/worker_threads.py   prediction batch worker          *)
(*   Scripts/StockApp/portfolio_logic.py  Markowitz statistics, optimizer  *)
(*   Scripts/beta-test/backend/api/*.py   SARIMAX forecast, REST variants  *)
(*   Scripts/Portfolio_optimizer/main2.py command-line optimizer           *)
(*                                                                         *)
(* Each function under study is a small state machine held in one record   *)
(* variable (its call frame).  Results of the external libraries           *)
(* (statsmodels fit, pmdarima search, scipy minimize) are chosen           *)
(* nondeterministically from the outcomes those calls can produce.         *)
(***************************************************************************)
EXTENDS Integers, Sequences, FiniteSets, TLC

VARIABLES grid, fc, met, sx, batch, st, pf, rt, rp, app, dm

vars == <<grid, fc, met, sx, batch, st, pf, rt, rp, app, dm>>

\* A frame that takes no part in the specification being checked.
Idle == [pc |-> "idle"]

\* Python's None where a tuple or list may stand.
None == <<>>

----------------------------------------------------------------------------
(* IEEE-754 doubles, as far as the code depends on them: a finite value is *)
(* an exact fraction n/d in lowest terms (d > 0), and the special values   *)
(* keep their comparison and division rules (numpy arithmetic warns on a   *)
(* zero divisor, it does not raise).                                       *)

Abs(x) == IF x < 0 THEN -x ELSE x

RECURSIVE Gcd(_, _)
Gcd(a, b) == IF b = 0 THEN a ELSE Gcd(b, a % b)

Rat(n, d) ==
    LET g == Gcd(Abs(n), Abs(d))
        sg == IF d < 0 THEN -1 ELSE 1
    IN [k |-> "num", n |-> sg * (n \div g), d |-> sg * (d \div g)]

Num(n) == [k |-> "num", n |-> n, d |-> 1]
PosInf == [k |-> "inf", n |-> 1, d |-> 1]
NegInf == [k |-> "inf", n |-> -1, d |-> 1]
NaN == [k |-> "nan", n |-> 0, d |-> 1]

IsNum(a) == a.k = "num"
IsNaN(a) == a.k = "nan"

\* a < b on doubles: false whenever either side is NaN.
FLt(a, b) ==
    /\ ~IsNaN(a)
    /\ ~IsNaN(b)
    /\ CASE IsNum(a) /\ IsNum(b) -> a.n * b.d < b.n * a.d
         [] ~IsNum(a) /\ ~IsNum(b) -> a.n < b.n
         [] ~IsNum(a) -> a.n < 0
         [] OTHER -> b.n > 0

FLe(a, b) == ~IsNaN(a) /\ ~IsNaN(b) /\ ~FLt(b, a)

FGt(a, b) == FLt(b, a)

FAbs(a) ==
    IF IsNum(a) THEN Rat(Abs(a.n), a.d) ELSE IF IsNaN(a) THEN NaN ELSE PosInf

FAdd(a, b) ==
    IF IsNaN(a) \/ IsNaN(b) THEN NaN
    ELSE IF IsNum(a) /\ IsNum(b) THEN Rat(a.n * b.d + b.n * a.d, a.d * b.d)
    ELSE IF ~IsNum(a) /\ ~IsNum(b) THEN (IF a.n = b.n THEN a ELSE NaN)
    ELSE IF IsNum(a) THEN b ELSE a

\* a / b of numpy float64: x/0 is +-inf, 0/0 is nan.
FDiv(a, b) ==
    IF IsNaN(a) \/ IsNaN(b) THEN NaN
    ELSE IF IsNum(a) /\ IsNum(b)
         THEN IF b.n # 0 THEN Rat(a.n * b.d, a.d * b.n)
              ELSE IF a.n = 0 THEN NaN
              ELSE IF a.n > 0 THEN PosInf ELSE NegInf
    ELSE IF ~IsNum(a) /\ ~IsNum(b) THEN NaN
    ELSE IF IsNum(a) THEN Num(0)
    ELSE IF b.n >= 0 THEN a ELSE [a EXCEPT !.n = -a.n]

FMul(a, b) ==
    IF IsNum(a) /\ IsNum(b) THEN Rat(a.n * b.n, a.d * b.d) ELSE NaN

FSub(a, b) == FAdd(a, FMul(Num(-1), b))

\* a * k for an integer k > 0.
FScale(a, k) == IF IsNum(a) THEN Rat(a.n * k, a.d) ELSE a

RECURSIVE FSum(_)
FSum(xs) == IF xs = <<>> THEN Num(0) ELSE FAdd(Head(xs), FSum(Tail(xs)))

\* np.mean of a non-empty array.
FMean(xs) == FDiv(FSum(xs), Num(Len(xs)))

----------------------------------------------------------------------------
(* _auto_arima_grid_search(train_data, max_p, max_d, max_q)                *)

\* Largest value of max_p, max_d, max_q a call is made with.
MaxArg == 1
\* Finite AIC values a fit reports are 0..MaxAic.
MaxAic == 1

Orders(mp, md, mq) == (0..mp) \X (0..md) \X (0..mq)

\* What fitted.aic can be after a fit that did not raise.
AicValues == {Num(n) : n \in 0..MaxAic} \cup {PosInf, NaN}

\* line 26: the trivial order is skipped before any model is built.
GridSkips(p, d, q) == p = 0 /\ d = 0 /\ q = 0

\* Mutant of GridBetter: keeps the larger AIC.
GridBetterWorst(aic, best) == FGt(aic, best)

\* Mutant of GridBetter: a later candidate with an equal AIC also replaces.
GridBetterOrEqual(aic, best) == FLe(aic, best)

\* line 34: if fitted.aic < best_aic
GridBetter(aic, best) == FLt(aic, best)

\* Mutant of GridCatches: the exception of a fit leaves the function.
GridCatchesNothing == FALSE

\* lines 25, 37-38: try ... except Exception: continue
GridCatches == TRUE

\* Mutant of GridResult: no fallback order.
GridResultNoFallback(best_order) == best_order

\* line 40: return best_order if best_order else (1, 1, 1)
GridResult(best_order) == IF best_order = None THEN <<1, 1, 1>> ELSE best_order

\* The three nested range() loops: the position after (p, d, q), or "end".
GridAdvance(g) ==
    IF g.q < g.max_q THEN [g EXCEPT !.q = g.q + 1]
    ELSE IF g.d < g.max_d THEN [g EXCEPT !.d = g.d + 1, !.q = 0]
    ELSE IF g.p < g.max_p THEN [g EXCEPT !.p = g.p + 1, !.d = 0, !.q = 0]
    ELSE [g EXCEPT !.pc = "return"]

\* The frame on entry (lines 19-20); tried, fitted, aicOfBest and sawRaise
\* are history: the orders handed to ARIMA, the AICs of the fits that
\* succeeded, the AIC of the fit whose order is in best_order, and whether
\* a fit raised; firstWith[n] is the first order whose fit reported AIC n
\* and tied says that the least AIC so far was reported more than once.
\* watch selects the history that is kept: "fits" (tried, fitted, sawRaise)
\* or "ties" (firstWith, tied).
GridEntry(mp, md, mq) ==
    [pc |-> "loop", max_p |-> mp, max_d |-> md, max_q |-> mq,
     p |-> 0, d |-> 0, q |-> 0,
     best_aic |-> PosInf, best_order |-> None, ret |-> None,
     tried |-> {}, fitted |-> {}, aicOfBest |-> NaN, sawRaise |-> FALSE,
     firstWith |-> [n \in 0..MaxAic |-> None], tied |-> FALSE,
     watch |-> "fits"]

GridOnly == UNCHANGED <<fc, met, sx, batch, st, pf, rt, rp, app, dm>>

GridInit ==
    /\ \E mp \in 0..MaxArg, md \in 0..MaxArg, mq \in 0..MaxArg :
          grid = GridEntry(mp, md, mq)
    /\ fc = Idle /\ met = Idle /\ sx = Idle /\ batch = Idle
    /\ st = Idle /\ pf = Idle /\ rt = Idle /\ rp = Idle
    /\ app = Idle /\ dm = Idle

\* lines 26-27: (0,0,0) is passed over.
GridSkipTrivial ==
    /\ grid.pc = "loop"
    /\ GridSkips(grid.p, grid.d, grid.q)
    /\ grid' = GridAdvance(grid)
    /\ GridOnly

\* lines 29-36: the fit succeeds and reports an AIC.
GridFitOk ==
    /\ grid.pc = "loop"
    /\ ~GridSkips(grid.p, grid.d, grid.q)
    /\ \E a \in AicValues :
          LET o == <<grid.p, grid.d, grid.q>>
              g0 == IF grid.watch = "fits"
                    THEN [grid EXCEPT !.tried = @ \cup {o},
                                      !.fitted = @ \cup {a}]
                    ELSE grid
              g1 == IF grid.watch # "ties" THEN g0
                    ELSE IF IsNum(a) /\ grid.firstWith[a.n] = None
                    THEN [g0 EXCEPT !.firstWith[a.n] = o,
                                    !.tied = IF \E k \in 0..a.n :
                                                    grid.firstWith[k] # None
                                             THEN @ ELSE FALSE]
                    ELSE IF IsNum(a) /\ \A k \in 0..(a.n - 1) :
                                           grid.firstWith[k] = None
                    THEN [g0 EXCEPT !.tied = TRUE]
                    ELSE g0
              g2 == IF GridBetter(a, grid.best_aic)
                    THEN [g1 EXCEPT !.best_aic = a, !.best_order = o,
                                    !.aicOfBest = a]
                    ELSE g1
          IN grid' = GridAdvance(g2)
    /\ GridOnly

\* lines 29-32, 37-38: building or fitting the model raises.
GridFitRaises ==
    /\ grid.pc = "loop"
    /\ ~GridSkips(grid.p, grid.d, grid.q)
    /\ LET o == <<grid.p, grid.d, grid.q>>
           g1 == IF grid.watch = "fits"
                 THEN [grid EXCEPT !.tried = @ \cup {o}, !.sawRaise = TRUE]
                 ELSE grid
       IN grid' = IF GridCatches THEN GridAdvance(g1)
                  ELSE [g1 EXCEPT !.pc = "raised"]
    /\ GridOnly

\* line 40
GridReturn ==
    /\ grid.pc = "return"
    /\ grid' = [grid EXCEPT !.pc = "done", !.ret = GridResult(grid.best_order)]
    /\ GridOnly

GridNext ==
    \/ GridSkipTrivial
    \/ GridFitOk
    \/ GridFitRaises
    \/ GridReturn

SpecGrid == GridInit /\ [][GridNext]_vars

\* The same calls, watched for ties.
GridTiesInit ==
    /\ \E mp \in 0..MaxArg, md \in 0..MaxArg, mq \in 0..MaxArg :
          grid = [GridEntry(mp, md, mq) EXCEPT !.watch = "ties"]
    /\ fc = Idle /\ met = Idle /\ sx = Idle /\ batch = Idle
    /\ st = Idle /\ pf = Idle /\ rt = Idle /\ rp = Idle
    /\ app = Idle /\ dm = Idle

SpecGridTies == GridTiesInit /\ [][GridNext]_vars

\* C1: the grid search never fits (0,0,0), never ends by a propagated
\* exception (it visits every other order of the grid however many fits
\* raise), and, once some fit has reported a finite AIC, returns a fitted
\* order of the grid whose AIC is <= the AIC of every successful fit (a NaN
\* AIC compares with nothing and is left out of the comparison).
C1_GridArgmin ==
    /\ <<0, 0, 0>> \notin grid.tried
    /\ grid.pc # "raised"
    /\ grid.pc = "done" =>
          grid.tried = Orders(grid.max_p, grid.max_d, grid.max_q) \ {<<0, 0, 0>>}
    /\ (grid.pc = "done" /\ \E a \in grid.fitted : IsNum(a)) =>
          /\ grid.ret \in grid.tried
          /\ grid.ret = grid.best_order
          /\ grid.aicOfBest \in grid.fitted
          /\ \A a \in grid.fitted : IsNaN(a) \/ FLe(grid.aicOfBest, a)

\* A finished search in which one fit raised, two fits reported different
\* finite AICs and the returned order is not the first one fitted.
C1_Witness ==
    /\ grid.pc = "done"
    /\ grid.sawRaise
    /\ {Num(0), Num(1)} \subseteq grid.fitted
    /\ grid.aicOfBest = Num(0)
    /\ grid.ret = <<1, 0, 1>>

\* C2: when every fit of the search raises, the search ends normally and
\* returns (1,1,1).
C2_GridFallback ==
    /\ grid.pc # "raised"
    /\ (grid.pc = "done" /\ grid.fitted = {}) => grid.ret = <<1, 1, 1>>

\* A finished search over a non-empty grid in which every fit raised.
C2_Witness ==
    /\ grid.pc = "done"
    /\ grid.fitted = {}
    /\ grid.sawRaise
    /\ Cardinality(grid.tried) > 1
    /\ grid.ret = <<1, 1, 1>>

\* The least finite AIC some fit of the search has reported.
LeastAic == CHOOSE n \in 0..MaxAic :
               /\ grid.firstWith[n] # None
               /\ \A k \in 0..MaxAic : grid.firstWith[k] # None => n <= k

\* C30: on a tie the grid search keeps the earlier candidate: once some fit
\* has reported a finite AIC, best_order is at every moment the first order
\* of the iteration (p, then d, then q ascending) whose fit reported the
\* least AIC so far, and that order is what the search returns.
C30_GridFirstOnTies ==
    (grid.pc # "idle" /\ \E n \in 0..MaxAic : grid.firstWith[n] # None) =>
        /\ grid.watch = "ties"
        /\ grid.best_order = grid.firstWith[LeastAic]
        /\ grid.aicOfBest = Num(LeastAic)
        /\ grid.pc = "done" => grid.ret = grid.firstWith[LeastAic]

\* A finished search in which the least AIC was reported by more than one
\* fit, after an earlier fit with a larger AIC.
C30_Witness ==
    /\ grid.pc = "done"
    /\ grid.tied
    /\ grid.firstWith[1] = <<0, 0, 1>>
    /\ grid.ret = <<0, 1, 0>>

----------------------------------------------------------------------------
(* Values shared by the forecasting entry points.                          *)

\* An optional string: None is <<>>, the string s is <<s>>.
PyStr(s) == <<s>>

\* Python truth of an optional string (if error:).
Truthy(e) == e # None /\ \E i \in DOMAIN e : e[i] # ""

\* A missing dict or array.
NoneRec == [none |-> TRUE]

\* str(e) of the exceptions the libraries raise: some carry no text
\* (MemoryError(), a bare assert).
ExcMessages == {"", "fit failed"}

\* The slice a[lo:hi] of a series of n observations, as the positions
\* lo+1 .. hi it covers (1-based), clipped like a Python slice.
Slice(lo, hi) == <<lo + 1, hi>>

SliceLen(s) == IF s[2] >= s[1] THEN s[2] - s[1] + 1 ELSE 0

----------------------------------------------------------------------------
(* pandas.date_range(start, periods, freq) on a day calendar: day 0 is     *)
(* Monday 2024-01-01.  'D' has every day as anchor, 'W' (W-SUN) the        *)
(* Sundays, 'M' the last day of each month.  The range starts at the first *)
(* anchor on or after start.                                               *)

Freqs == {"D", "W", "M"}

\* What pd.infer_freq reports for a weekly index of Mondays.
WeeklyOnMonday == "W-MON"

\* Last days of the months of 2024 and of January..June 2025.
MonthEnds == {30, 59, 90, 120, 151, 181, 212, 243, 273, 304, 334, 365,
              396, 424, 455, 485, 516, 546}

CalendarEnd == 546

IsAnchor(day, freq) ==
    CASE freq = "D" -> TRUE
      [] freq = "W" -> day % 7 = 6
      [] freq = WeeklyOnMonday -> day % 7 = 0
      [] OTHER -> day \in MonthEnds

\* The first anchor on or after day.
RollForward(day, freq) ==
    CHOOSE a \in day..CalendarEnd :
        IsAnchor(a, freq) /\ \A b \in day..(a - 1) : ~IsAnchor(b, freq)

RECURSIVE DateRangeFrom(_, _, _)
DateRangeFrom(anchor, periods, freq) ==
    IF periods <= 0 THEN <<>>
    ELSE <<anchor>> \o DateRangeFrom(RollForward(anchor + 1, freq), periods - 1, freq)

date_range(start, periods, freq) ==
    DateRangeFrom(RollForward(start, freq), periods, freq)

\* a[1:] of a sequence.
DropFirst(a) == IF a = <<>> THEN <<>> ELSE Tail(a)

----------------------------------------------------------------------------
(* run_arima_forecast(df, horizon, freq_str, is_auto, manual_order)        *)

\* Longest input series.
MaxLen == 6
\* Largest forecast horizon.
MaxHorizon == 2

\* Defaults of _auto_arima_grid_search (line 15).
GridDefaultP == 3
GridDefaultD == 2
GridDefaultQ == 3

\* Bounds handed to pmdarima's auto_arima (line 76).
StepwiseMaxP == 5
StepwiseMaxD == 2
StepwiseMaxQ == 5

\* Every value _auto_arima_grid_search(train) can return under its
\* defaults (C1, C2: a fitted order of the grid, or the fallback).
GridReturns ==
    (Orders(GridDefaultP, GridDefaultD, GridDefaultQ) \ {<<0, 0, 0>>})
        \cup {<<1, 1, 1>>}

\* Every order auto_arima can report under the bounds of line 76.
StepwiseReturns == Orders(StepwiseMaxP, StepwiseMaxD, StepwiseMaxQ)

\* Orders the manual spin boxes are set to in the model.
ManualOrders == {<<1, 1, 1>>, <<5, 2, 5>>}

\* Dates of the last observation: a Wednesday, a Sunday, a month end
\* (Wednesday 2024-01-31) and the day before a month end.
LastDates == {2, 6, 30, 58}

\* line 67: int(len(close_prices) * 0.8)
\* Mutant of TrainSize: nothing is held out.
TrainSizeWhole(n) == n

TrainSize(n) == (n * 8) \div 10

\* Mutant of StepwiseFailureGoesToGrid: the error of auto_arima propagates.
StepwiseFailurePropagates == FALSE

\* lines 78-79: except Exception: order = _auto_arima_grid_search(train)
StepwiseFailureGoesToGrid == TRUE

\* ARIMA(data, order).fit(): the fitted model remembers its sample.
ArimaFit(data, order) == [data |-> data, order |-> order]

\* fit.get_forecast(steps) / fit.forecast(steps): out-of-sample predictions
\* for the steps positions that follow the END of the sample the model was
\* fitted on; each prediction is named by the position it is for.
Forecast(fit, steps) ==
    [fitOn |-> fit.data, pos |-> [i \in 1..steps |-> fit.data[2] + i]]

\* Mutant of FutureDates: the range is not extended by the start date.
FutureDatesShort(last_date, horizon, freq) ==
    DropFirst(date_range(last_date, horizon, freq))

\* line 119: pd.date_range(start=last_date, periods=horizon+1, freq)[1:]
FutureDates(last_date, horizon, freq) ==
    DropFirst(date_range(last_date, horizon + 1, freq))

FcOnly == UNCHANGED <<grid, met, sx, batch, st, pf, rt, rp, app, dm>>

\* The frame on entry.  pmd is PMDARIMA_AVAILABLE (lines 8-13).  df is known
\* by its length n; its last index value is chosen when line 118 reads it.
\* In automatic mode the spin boxes keep their default (1,1,1).
FcInit ==
    /\ \E n \in 0..MaxLen, h \in 1..MaxHorizon, f \in Freqs,
          auto \in BOOLEAN, mo \in ManualOrders, pmd \in BOOLEAN :
          /\ auto => mo = <<1, 1, 1>>
          /\ fc = [pc |-> "split", n |-> n, horizon |-> h,
                   freq_str |-> f, is_auto |-> auto, manual_order |-> mo,
                   pmd |-> pmd,
                   train |-> None, test |-> None, order |-> None,
                   order_from |-> "none", search_data |-> None,
                   stepwise_raised |-> FALSE,
                   final_fit |-> NoneRec, forecast |-> None,
                   lower_bound |-> None, upper_bound |-> None,
                   metrics |-> NoneRec, exc |-> NoneRec, last_date |-> None,
                   result |-> NoneRec, error |-> None]
    /\ grid = Idle /\ met = Idle /\ sx = Idle /\ batch = Idle
    /\ st = Idle /\ pf = Idle /\ rt = Idle /\ rp = Idle
    /\ app = Idle /\ dm = Idle

\* lines 64-68
FcSplit ==
    /\ fc.pc = "split"
    /\ fc' = [fc EXCEPT !.pc = "order",
                        !.train = Slice(0, TrainSize(fc.n)),
                        !.test = Slice(TrainSize(fc.n), fc.n)]
    /\ FcOnly

\* lines 82-83
FcOrderManual ==
    /\ fc.pc = "order"
    /\ ~fc.is_auto
    /\ fc' = [fc EXCEPT !.pc = "fit", !.order = fc.manual_order,
                        !.order_from = "manual"]
    /\ FcOnly

\* lines 72-77: auto_arima(train, ...) returns a model.
FcOrderStepwise ==
    /\ fc.pc = "order"
    /\ fc.is_auto /\ fc.pmd
    /\ \E o \in StepwiseReturns :
          fc' = [fc EXCEPT !.pc = "fit", !.order = o,
                           !.order_from = "stepwise", !.search_data = fc.train]
    /\ FcOnly

\* lines 72-79: auto_arima raises.
FcOrderStepwiseRaises ==
    /\ fc.pc = "order"
    /\ fc.is_auto /\ fc.pmd
    /\ \E m \in ExcMessages :
          IF StepwiseFailureGoesToGrid
          THEN \E o \in GridReturns :
                  fc' = [fc EXCEPT !.pc = "fit", !.order = o,
                                   !.order_from = "grid",
                                   !.search_data = fc.train,
                                   !.stepwise_raised = TRUE]
          ELSE fc' = [fc EXCEPT !.pc = "except", !.stepwise_raised = TRUE,
                                !.exc = [msg |-> m, origin |-> "stepwise"]]
    /\ FcOnly

\* lines 80-81: pmdarima is not installed.
FcOrderGrid ==
    /\ fc.pc = "order"
    /\ fc.is_auto /\ ~fc.pmd
    /\ \E o \in GridReturns :
          fc' = [fc EXCEPT !.pc = "fit", !.order = o, !.order_from = "grid",
                           !.search_data = fc.train]
    /\ FcOnly

\* lines 86-89: the final model is fitted on close_prices, the whole series.
FcFit ==
    /\ fc.pc = "fit"
    /\ fc' = [fc EXCEPT !.pc = "forecast",
                        !.final_fit = ArimaFit(Slice(0, fc.n), fc.order)]
    /\ FcOnly

\* lines 92-101
FcForecast ==
    /\ fc.pc = "forecast"
    /\ LET f == Forecast(fc.final_fit, fc.horizon)
       IN fc' = [fc EXCEPT !.pc = "metrics", !.forecast = f.pos,
                           !.lower_bound = f.pos, !.upper_bound = f.pos]
    /\ FcOnly

\* lines 104-115: the metrics compare test with final_fit.forecast(len(test)).
FcMetrics ==
    /\ fc.pc = "metrics"
    /\ fc' = [fc EXCEPT !.pc = "dates",
                        !.metrics =
                            IF SliceLen(fc.test) > 0
                            THEN [none |-> FALSE, test_actual |-> fc.test,
                                  test_predicted |->
                                      Forecast(fc.final_fit, SliceLen(fc.test))]
                            ELSE NoneRec]
    /\ FcOnly

\* lines 118-129: df.index[-1] raises IndexError on an empty frame.
FcDates ==
    /\ fc.pc = "dates"
    /\ IF fc.n = 0
       THEN fc' = [fc EXCEPT !.pc = "except",
                             !.exc = [msg |-> "index -1 is out of bounds",
                                      origin |-> "dates"]]
       ELSE \E last \in LastDates :
              fc' = [fc EXCEPT !.pc = "done",
                     !.last_date = <<last>>,
                     !.result =
                        [none |-> FALSE, forecast |-> fc.forecast,
                         dates |-> FutureDates(last, fc.horizon, fc.freq_str),
                         order |-> fc.order, metrics |-> fc.metrics,
                         lower_bound |-> fc.lower_bound,
                         upper_bound |-> fc.upper_bound],
                     !.error = None]
    /\ FcOnly

\* A statsmodels or sklearn call of lines 88-115 raises.
FcRaise ==
    /\ fc.pc \in {"fit", "forecast", "metrics"}
    /\ \E m \in ExcMessages :
          fc' = [fc EXCEPT !.pc = "except",
                           !.exc = [msg |-> m, origin |-> fc.pc]]
    /\ FcOnly

\* lines 131-134: return None, str(e)
FcExcept ==
    /\ fc.pc = "except"
    /\ fc' = [fc EXCEPT !.pc = "done", !.result = NoneRec,
                        !.error = PyStr(fc.exc.msg)]
    /\ FcOnly

FcNext ==
    \/ FcSplit
    \/ FcOrderManual
    \/ FcOrderStepwise
    \/ FcOrderStepwiseRaises
    \/ FcOrderGrid
    \/ FcFit
    \/ FcForecast
    \/ FcMetrics
    \/ FcDates
    \/ FcRaise
    \/ FcExcept

SpecForecast == FcInit /\ [][FcNext]_vars

FcOk == fc.pc = "done" /\ fc.result # NoneRec


\* C3: in automatic mode, when pmdarima is missing or auto_arima raised, the
\* order comes from the grid search run on the train slice, the final model
\* is fitted with that order, the result reports it, and no error returned
\* to the caller is the stepwise search's.
C3_StepwiseFallsBackToGrid ==
    (fc.is_auto /\ (~fc.pmd \/ fc.stepwise_raised)
        /\ fc.pc \notin {"split", "order"}) =>
        /\ fc.order_from = "grid"
        /\ fc.search_data = Slice(0, TrainSize(fc.n))
        /\ fc.order \in GridReturns
        /\ fc.exc # NoneRec => fc.exc.origin # "stepwise"
        /\ fc.final_fit # NoneRec => fc.final_fit.order = fc.order
        /\ FcOk => fc.result.order = fc.order

\* A forecast that succeeded after auto_arima raised, with a grid order on
\* a non-empty train slice.
C3_Witness ==
    /\ FcOk
    /\ fc.is_auto /\ fc.pmd /\ fc.stepwise_raised
    /\ fc.order = <<3, 2, 3>>
    /\ fc.result.order = <<3, 2, 3>>
    /\ SliceLen(fc.train) = 4

\* The positions of the held-out test slice.
TestPositions == [i \in 1..SliceLen(fc.test) |-> fc.test[1] + i - 1]

\* C4: the model behind the backtest predictions was fitted on the train
\* slice only, and the predictions are for the positions of the test slice.
C4_BacktestFitOnTrainOnly ==
    (FcOk /\ fc.result.metrics # NoneRec) =>
        /\ fc.result.metrics.test_predicted.fitOn = fc.train
        /\ fc.result.metrics.test_predicted.pos = TestPositions


----------------------------------------------------------------------------
(* The backtest metrics: analysis_logic.py lines 105-115 and sarimax.py    *)
(* lines 141-143, on the actual values and the predictions compared.       *)

\* Longest compared slice.
MaxTest == 2
\* Prices and predictions are 0..MaxPrice.
MaxPrice == 2

SeqsOfLen(S, k) == [1..k -> S]

\* |(actual - predicted) / actual| of one point, as numpy computes it.
AbsPctErr(a, p) == FAbs(FDiv(Num(a - p), Num(a)))

\* np.mean(np.abs((test - pred) / test)) * 100
Mape(test, pred) ==
    FScale(FMean([i \in 1..Len(test) |-> AbsPctErr(test[i], pred[i])]), 100)

\* mean_absolute_error(test, pred)
Mae(test, pred) ==
    FMean([i \in 1..Len(test) |-> Num(Abs(test[i] - pred[i]))])

\* mean_squared_error(test, pred); the code reports its square root.
Mse(test, pred) ==
    FMean([i \in 1..Len(test) |->
              Num((test[i] - pred[i]) * (test[i] - pred[i]))])

MetOnly == UNCHANGED <<grid, fc, sx, batch, st, pf, rt, rp, app, dm>>

MetInit ==
    /\ \E k \in 1..MaxTest :
          \E t \in SeqsOfLen(0..MaxPrice, k), q \in SeqsOfLen(0..MaxPrice, k) :
             met = [pc |-> "start", test |-> t, test_predictions |-> q,
                    by |-> "none", raised |-> FALSE,
                    mse |-> NaN, mae |-> NaN, mape |-> NaN,
                    mean_price |-> NaN, mae_percent |-> NaN]
    /\ grid = Idle /\ fc = Idle /\ sx = Idle /\ batch = Idle
    /\ st = Idle /\ pf = Idle /\ rt = Idle /\ rp = Idle
    /\ app = Idle /\ dm = Idle

\* analysis_logic.py lines 107-112
MetArima ==
    /\ met.pc = "start"
    /\ LET t == met.test
           q == met.test_predictions
       IN met' = [met EXCEPT !.pc = "done", !.by = "run_arima_forecast",
                     !.mse = Mse(t, q), !.mae = Mae(t, q),
                     !.mape = Mape(t, q),
                     !.mean_price = FMean([i \in 1..Len(t) |-> Num(t[i])]),
                     !.mae_percent =
                         FScale(FDiv(Mae(t, q),
                                     FMean([i \in 1..Len(t) |-> Num(t[i])])),
                                100)]
    /\ MetOnly

\* sarimax.py lines 141-143
MetSarimax ==
    /\ met.pc = "start"
    /\ LET t == met.test
           q == met.test_predictions
       IN met' = [met EXCEPT !.pc = "done", !.by = "fit_sarimax",
                     !.mae = Mae(t, q), !.mape = Mape(t, q)]
    /\ MetOnly

MetNext ==
    \/ MetArima
    \/ MetSarimax

SpecMetrics == MetInit /\ [][MetNext]_vars

\* The indices of the points whose actual value is not 0.
NonZeroPoints(t) == {i \in 1..Len(t) : t[i] # 0}

RECURSIVE SumOver(_, _, _)
SumOver(I, t, q) ==
    IF I = {} THEN Num(0)
    ELSE LET i == CHOOSE j \in I : TRUE
         IN FAdd(AbsPctErr(t[i], q[i]), SumOver(I \ {i}, t, q))

\* The mean of |actual - predicted| / |actual| over the non-zero actuals,
\* in percent.
GuardedMape(t, q) ==
    FScale(FDiv(SumOver(NonZeroPoints(t), t, q),
                Num(Cardinality(NonZeroPoints(t)))), 100)

\* C5: with an actual value of exactly 0 in the compared slice the MAPE is
\* computed without raising, is a finite number, and is the mean over the
\* points whose actual value is not 0.
C5_MapeExcludesZeroActuals ==
    (met.pc = "done" /\ \E i \in 1..Len(met.test) : met.test[i] = 0) =>
        /\ ~met.raised
        /\ IsNum(met.mape)
        /\ NonZeroPoints(met.test) # {} =>
              met.mape = GuardedMape(met.test, met.test_predictions)

----------------------------------------------------------------------------
(* fit_sarimax(history_data, exog_data, order, seasonal_order,             *)
(*             forecast_steps, auto_fit)   (beta-test/backend/api)         *)

\* line 59: the overlap below which the exogenous data is ignored.
MinOverlap == 10

\* Target indexes (sets of days): no rows, two rows, twelve consecutive
\* days, twelve Mondays, twelve days with irregular gaps.
TargetIndexes ==
    {{}, 1..2, 1..12, {7 * i : i \in 0..11}, (1..14) \ {4, 9}}

\* Exogenous inputs: the days observed and the days whose value is missing
\* (None in the row built by forecast_route, lines 278-283).
NoExog == [idx |-> {}, nan |-> {}]
ExogInputs ==
    {NoExog,
     [idx |-> 1..12, nan |-> {}],
     [idx |-> 0..11, nan |-> {}],
     [idx |-> 1..12, nan |-> {5}],
     [idx |-> 1..9, nan |-> {}]}

\* Orders the caller passes (the route's defaults, routes.py lines 236-244).
SxCallerOrders == {[order |-> <<1, 1, 1>>, seasonal_order |-> <<0, 1, 1, 12>>]}

\* Orders pm.auto_arima reports in the model.
SxAutoOrders ==
    {[order |-> <<0, 1, 0>>, seasonal_order |-> <<0, 1, 0, 12>>],
     [order |-> <<3, 2, 3>>, seasonal_order |-> <<2, 1, 2, 12>>]}

SetMax(S) == CHOOSE x \in S : \A y \in S : y <= x
SetMin(S) == CHOOSE x \in S : \A y \in S : x <= y

\* The index value before day in idx, or -1.
PrevIn(idx, day) ==
    IF \E e \in idx : e < day THEN SetMax({e \in idx : e < day}) ELSE -1

AllGaps(idx, g) == \A e \in idx : e = SetMin(idx) \/ e - PrevIn(idx, e) = g

\* pd.infer_freq(index): needs three dates; a regular daily or weekly
\* index gets its frequency, any other index None.
InferFreq(idx) ==
    IF Cardinality(idx) < 3 THEN "raise"
    ELSE IF AllGaps(idx, 1) THEN "D"
    ELSE IF AllGaps(idx, 7) /\ SetMin(idx) % 7 = 0 THEN WeeklyOnMonday
    ELSE "None"

\* Mutant of ExogShifted: no shift, each day keeps its own value.
ExogNotShifted(e) == [d \in e.idx \ e.nan |-> d]

\* line 64: exog_raw.shift(1).dropna(): each day gets the value of the
\* previous exogenous row (named by that row's day); rows left without a
\* value are dropped.
ExogShifted(e) ==
    [d \in {x \in e.idx : PrevIn(e.idx, x) # -1 /\ PrevIn(e.idx, x) \notin e.nan}
        |-> PrevIn(e.idx, d)]

\* SARIMAX(series, ...).fit(): the fitted model remembers its sample, the
\* positions 1..n of series.
SarimaxFit(n, order, seasonal_order) ==
    [data |-> <<1, n>>, order |-> order, seasonal_order |-> seasonal_order]

\* results.predict(start, end): in-sample predictions for the 0-based
\* positions start..end of the sample the model was fitted on.
Predict(fit, start, end) ==
    [fitOn |-> fit.data, pos |-> [i \in 1..(end - start + 1) |-> start + i]]

\* Mutant of SxFutureDates: the range starts at the last observation.
SxFutureDatesFromLast(last, steps, freq) == date_range(last, steps - 1, freq)

\* lines 85, 146: date_range(series.index[-1] + 1 day, forecast_steps, freq)
SxFutureDates(last, steps, freq) == date_range(last + 1, steps, freq)

SxOnly == UNCHANGED <<grid, fc, met, batch, st, pf, rt, rp, app, dm>>

SxInit ==
    /\ \E h \in TargetIndexes, e \in ExogInputs, o \in SxCallerOrders,
          steps \in 1..MaxHorizon, auto \in BOOLEAN, pmd \in BOOLEAN :
          sx = [pc |-> "prepare", history |-> h, exog |-> e,
                order |-> o.order, seasonal_order |-> o.seasonal_order,
                forecast_steps |-> steps, auto_fit |-> auto, pmd |-> pmd,
                freq |-> "None", series |-> {}, exog_df |-> NoneRec,
                future_exog |-> None,
                final_order |-> None, final_seasonal_order |-> None,
                search_data |-> None,
                auto_raised |-> FALSE, results |-> NoneRec,
                forecast |-> None, conf_int |-> None,
                metrics |-> NoneRec, exc |-> NoneRec,
                ret |-> NoneRec, ret_error |-> None]
    /\ grid = Idle /\ fc = Idle /\ met = Idle /\ batch = Idle
    /\ st = Idle /\ pf = Idle /\ rt = Idle /\ rp = Idle
    /\ app = Idle /\ dm = Idle

\* lines 35-44: an empty history has no 'date' column (KeyError);
\* infer_freq raises ValueError on fewer than three dates.
SxPrepare ==
    /\ sx.pc = "prepare"
    /\ LET f == InferFreq(sx.history)
       IN IF sx.history = {}
          THEN sx' = [sx EXCEPT !.pc = "except",
                                !.exc = [msg |-> "'date'", origin |-> "prepare"]]
          ELSE IF f = "raise"
          THEN sx' = [sx EXCEPT !.pc = "except",
                                !.exc = [msg |-> "Need at least 3 dates to infer frequency",
                                         origin |-> "prepare"]]
          ELSE sx' = [sx EXCEPT !.pc = "exog",
                                !.freq = IF f = "None" THEN "D" ELSE f,
                                !.series = sx.history]
    /\ SxOnly

\* lines 50-86
SxExog ==
    /\ sx.pc = "exog"
    /\ LET shifted == ExogShifted(sx.exog)
           aligned == sx.history \cap DOMAIN shifted
       IN IF sx.exog.idx = {}
             \/ Cardinality(sx.history \cap sx.exog.idx) < MinOverlap
          THEN sx' = [sx EXCEPT !.pc = "order"]
          ELSE IF aligned = {}
          THEN sx' = [sx EXCEPT !.pc = "except",
                                !.exc = [msg |-> "index -1 is out of bounds",
                                         origin |-> "exog"]]
          ELSE sx' = [sx EXCEPT !.pc = "order",
                        !.series = aligned,
                        !.exog_df = [d \in aligned |-> shifted[d]],
                        !.future_exog =
                            [i \in 1..sx.forecast_steps |->
                                SetMax(sx.exog.idx)]]
    /\ SxOnly

\* lines 90-93: no automatic search is asked for or available.
SxOrderManual ==
    /\ sx.pc = "order"
    /\ ~(sx.auto_fit /\ sx.pmd)
    /\ sx' = [sx EXCEPT !.pc = "fit", !.final_order = sx.order,
                        !.final_seasonal_order = sx.seasonal_order]
    /\ SxOnly

\* lines 93-110: pm.auto_arima returns a model.
SxOrderAuto ==
    /\ sx.pc = "order"
    /\ sx.auto_fit /\ sx.pmd
    /\ \E o \in SxAutoOrders :
          sx' = [sx EXCEPT !.pc = "fit", !.final_order = o.order,
                           !.final_seasonal_order = o.seasonal_order,
                           !.search_data = Slice(0, Cardinality(sx.series))]
    /\ SxOnly

\* Mutant of AutoFailureIsLogged: the error of pm.auto_arima leaves the try.
AutoFailurePropagates == FALSE

\* lines 111-112: except Exception as ae: logger.error(...)
AutoFailureIsLogged == TRUE

\* lines 111-112: pm.auto_arima raises; the caller's orders stay.
SxOrderAutoRaises ==
    /\ sx.pc = "order"
    /\ sx.auto_fit /\ sx.pmd
    /\ \E m \in ExcMessages :
          LET s1 == [sx EXCEPT !.final_order = sx.order,
                               !.final_seasonal_order = sx.seasonal_order,
                               !.search_data = Slice(0, Cardinality(sx.series)),
                               !.auto_raised = TRUE]
          IN sx' = IF AutoFailureIsLogged
                   THEN [s1 EXCEPT !.pc = "fit"]
                   ELSE [s1 EXCEPT !.pc = "except",
                                   !.exc = [msg |-> m, origin |-> "order"]]
    /\ SxOnly

\* lines 115-127: the model is fitted on series, the whole aligned target.
SxFit ==
    /\ sx.pc = "fit"
    /\ sx' = [sx EXCEPT !.pc = "forecast",
                 !.results = SarimaxFit(Cardinality(sx.series), sx.final_order,
                                        sx.final_seasonal_order)]
    /\ SxOnly

\* lines 130-132
SxForecast ==
    /\ sx.pc = "forecast"
    /\ LET f == Forecast(sx.results, sx.forecast_steps)
       IN sx' = [sx EXCEPT !.pc = "metrics", !.forecast = f.pos,
                           !.conf_int = f.pos]
    /\ SxOnly

\* lines 137-143: in-sample predictions of the fitted model for the 0-based
\* positions 1..len(series)-1, compared with series[1:].
SxMetrics ==
    /\ sx.pc = "metrics"
    /\ LET n == Cardinality(sx.series)
       IN sx' = [sx EXCEPT !.pc = "response",
                    !.metrics =
                        [none |-> FALSE, actuals |-> Slice(1, n),
                         in_sample_preds |-> Predict(sx.results, 1, n - 1)]]
    /\ SxOnly

\* lines 146-164
SxResponse ==
    /\ sx.pc = "response"
    /\ sx' = [sx EXCEPT !.pc = "done",
                 !.ret =
                    [none |-> FALSE, forecast |-> sx.forecast,
                     lower_ci |-> sx.conf_int, upper_ci |-> sx.conf_int,
                     dates |-> SxFutureDates(SetMax(sx.series),
                                             sx.forecast_steps, sx.freq),
                     metrics |-> sx.metrics,
                     params |-> [order |-> sx.final_order,
                                 seasonal_order |-> sx.final_seasonal_order]]]
    /\ SxOnly

\* A statsmodels or sklearn call of lines 118-143 raises.
SxRaise ==
    /\ sx.pc \in {"fit", "forecast", "metrics"}
    /\ \E m \in ExcMessages :
          sx' = [sx EXCEPT !.pc = "except",
                           !.exc = [msg |-> m, origin |-> sx.pc]]
    /\ SxOnly

\* lines 166-170: the error is logged and None is returned; the caller gets
\* no message.
SxExcept ==
    /\ sx.pc = "except"
    /\ sx' = [sx EXCEPT !.pc = "done", !.ret = NoneRec, !.ret_error = None]
    /\ SxOnly

SxNext ==
    \/ SxPrepare
    \/ SxExog
    \/ SxOrderManual
    \/ SxOrderAuto
    \/ SxOrderAutoRaises
    \/ SxFit
    \/ SxForecast
    \/ SxMetrics
    \/ SxResponse
    \/ SxRaise
    \/ SxExcept

SpecSarimax == SxInit /\ [][SxNext]_vars

SxOk == sx.pc = "done" /\ sx.ret # NoneRec

----------------------------------------------------------------------------
(* portfolio_stats(weights, mean_returns, cov_matrix, rf_rate) in its      *)
(* three versions: StockApp/portfolio_logic.py, beta-test/.../routes.py,   *)
(* Portfolio_optimizer/main2.py.  A standard deviation is kept as the      *)
(* square root of an exact fraction, a Sharpe ratio as the quotient of a   *)
(* fraction by such a root.                                                *)

\* Most assets in a portfolio.
MaxAssets == 2
\* Weights are multiples of 1/WeightSteps.
WeightSteps == 2

\* The annualization factor (portfolio_logic.py lines 37-38).
TradingDays == 252

\* np.sqrt(x): the root of a negative number is nan.
FSqrt(x) ==
    IF ~IsNum(x) \/ x.n < 0 THEN NaN ELSE [k |-> "sqrt", n |-> x.n, d |-> x.d]

\* np.sqrt(x) * np.sqrt(c) for an integer c > 0.
SqrtScale(r, c) ==
    IF r.k = "sqrt" THEN FSqrt(Rat(r.n * c, r.d)) ELSE NaN

\* x / std on float64: a zero divisor gives +-inf or nan, with a warning.
DivByStd(x, std) ==
    IF IsNaN(x) \/ IsNaN(std) THEN NaN
    ELSE IF std.n = 0 THEN FDiv(x, Num(0))
    ELSE [k |-> "quot", num |-> x, den |-> std]

\* np.sum(mean_returns * weights)
Dot(ms, ws) == FSum([i \in 1..Len(ws) |-> FMul(ms[i], ws[i])])

\* np.dot(weights.T, np.dot(cov_matrix, weights))
Quadratic(ws, cov) ==
    FSum([i \in 1..Len(ws) |->
            FMul(ws[i], FSum([j \in 1..Len(ws) |-> FMul(cov[i][j], ws[j])]))])

AnnualReturn(ws, ms) == FScale(Dot(ms, ws), TradingDays)

AnnualVolatility(ws, cov) == SqrtScale(FSqrt(Quadratic(ws, cov)), TradingDays)

\* StockApp/portfolio_logic.py lines 30-41
portfolio_stats(weights, mean_returns, cov_matrix, rf_rate) ==
    LET portfolio_return == AnnualReturn(weights, mean_returns)
        portfolio_std == AnnualVolatility(weights, cov_matrix)
        sharpe_ratio ==
            IF portfolio_std.k = "sqrt" /\ portfolio_std.n > 0
            THEN DivByStd(FSub(portfolio_return, rf_rate), portfolio_std)
            ELSE Num(0)
    IN <<portfolio_return, portfolio_std, sharpe_ratio>>

\* beta-test/backend/api/routes.py lines 79-85
portfolio_stats_api(weights, mean_returns, cov_matrix, rf_rate) ==
    LET portfolio_return == AnnualReturn(weights, mean_returns)
        portfolio_std == AnnualVolatility(weights, cov_matrix)
    IN IF portfolio_std.k = "sqrt" /\ portfolio_std.n = 0
       THEN <<Num(0), Num(0), Num(0)>>
       ELSE <<portfolio_return, portfolio_std,
              DivByStd(FSub(portfolio_return, rf_rate), portfolio_std)>>

\* Portfolio_optimizer/main2.py lines 42-47
portfolio_stats_cli(weights, mean_returns, cov_matrix, rf_rate) ==
    LET portfolio_return == AnnualReturn(weights, mean_returns)
        portfolio_std == AnnualVolatility(weights, cov_matrix)
    IN <<portfolio_return, portfolio_std,
         DivByStd(FSub(portfolio_return, rf_rate), portfolio_std)>>

WeightGrid == {Rat(i, WeightSteps) : i \in 0..WeightSteps}
MeanValues == {Num(-1), Num(0), Num(1)}
RfValues == {Num(0), Num(1)}

\* Sample covariance matrices of rank <= 1: cov[i][j] = dev[i] * dev[j] for
\* a vector dev of deviations (symmetric and positive semi-definite).
CovOf(dev) ==
    [i \in 1..Len(dev) |-> [j \in 1..Len(dev) |-> Num(dev[i] * dev[j])]]

StOnly == UNCHANGED <<grid, fc, met, sx, batch, pf, rt, rp, app, dm>>

StInit ==
    /\ \E n \in 1..MaxAssets :
          \E w \in SeqsOfLen(WeightGrid, n), m \in SeqsOfLen(MeanValues, n),
             dev \in SeqsOfLen({-1, 0, 1}, n), rf \in RfValues :
             st = [pc |-> "start", weights |-> w, mean_returns |-> m,
                   cov_matrix |-> CovOf(dev), rf_rate |-> rf,
                   by |-> "none", raised |-> FALSE, ret |-> None]
    /\ grid = Idle /\ fc = Idle /\ met = Idle /\ sx = Idle /\ batch = Idle
    /\ pf = Idle /\ rt = Idle /\ rp = Idle
    /\ app = Idle /\ dm = Idle

StatsApp ==
    /\ st.pc = "start"
    /\ st' = [st EXCEPT !.pc = "done", !.by = "portfolio_logic.py",
                 !.ret = portfolio_stats(st.weights, st.mean_returns,
                                         st.cov_matrix, st.rf_rate)]
    /\ StOnly

StatsApi ==
    /\ st.pc = "start"
    /\ st' = [st EXCEPT !.pc = "done", !.by = "routes.py",
                 !.ret = portfolio_stats_api(st.weights, st.mean_returns,
                                             st.cov_matrix, st.rf_rate)]
    /\ StOnly

StatsCli ==
    /\ st.pc = "start"
    /\ st' = [st EXCEPT !.pc = "done", !.by = "main2.py",
                 !.ret = portfolio_stats_cli(st.weights, st.mean_returns,
                                             st.cov_matrix, st.rf_rate)]
    /\ StOnly

StNext ==
    \/ StatsApp
    \/ StatsApi
    \/ StatsCli

SpecStats == StInit /\ [][StNext]_vars

\* C10: portfolio_stats raises nothing; it returns Sharpe ratio exactly 0
\* when the annualized volatility is exactly 0, and otherwise
\* (annualReturn - riskFreeRate) / annualVolatility.
C10_SharpeZeroVolatility ==
    st.pc = "done" =>
        LET vol == AnnualVolatility(st.weights, st.cov_matrix)
            excess == FSub(AnnualReturn(st.weights, st.mean_returns),
                           st.rf_rate)
        IN /\ ~st.raised
           /\ st.ret[3] = IF vol.n = 0 THEN Num(0)
                          ELSE [k |-> "quot", num |-> excess, den |-> vol]

----------------------------------------------------------------------------
(* calculate_returns(prices_dict): StockApp/portfolio_logic.py lines 8-27  *)
(* and beta-test/backend/api/routes.py lines 68-77.  A 'Close' column is a *)
(* function from its timestamps to prices, a missing price being nan.      *)

\* Timestamps are the days 1..MaxDays.
MaxDays == 3

ReturnTickers == {"A", "B"}
PriceValues == {Num(1), Num(2), NaN}

\* df['Close'] of one ticker: any set of timestamps, any prices.
PriceFrames == UNION {[S -> PriceValues] : S \in SUBSET (1..MaxDays)}

\* prices_dict: any set of tickers.
PriceDicts == UNION {[T -> PriceFrames] : T \in SUBSET ReturnTickers}

\* pd.to_numeric(df['Close'], errors='coerce') (routes.py line 71): what is
\* not a number becomes nan.
ToNumeric(close) ==
    [t \in DOMAIN close |->
        IF close[t].k \in {"num", "nan", "inf"} THEN close[t] ELSE NaN]

\* Series.fillna(method='pad'): the last price known at or before t.
Padded(close, t) ==
    LET known == {e \in DOMAIN close : e <= t /\ ~IsNaN(close[e])}
    IN IF known = {} THEN NaN ELSE close[SetMax(known)]

\* Series.pct_change(): pandas before 3.0 pads the missing prices first
\* (fill_method='pad' by default), pandas 3.0 does not; the first row has
\* no predecessor and is nan.
pct_change(close, pad) ==
    [t \in DOMAIN close |->
        LET prev == PrevIn(DOMAIN close, t)
            now == IF pad THEN Padded(close, t) ELSE close[t]
            before == IF pad THEN Padded(close, prev) ELSE close[prev]
        IN IF prev = -1 THEN NaN ELSE FSub(FDiv(now, before), Num(1))]

\* Series.dropna()
dropna(series) ==
    [t \in {e \in DOMAIN series : ~IsNaN(series[e])} |-> series[t]]

\* pd.DataFrame(returns_data): the union of the indexes, nan where a
\* series has no row.
DataFrame(data) ==
    [columns |-> DOMAIN data,
     rows |-> [t \in UNION {DOMAIN data[c] : c \in DOMAIN data} |->
                 [c \in DOMAIN data |->
                     IF t \in DOMAIN data[c] THEN data[c][t] ELSE NaN]]]

\* DataFrame.dropna(): the rows with a nan in any column are dropped.
DropNaRows(frame) ==
    [frame EXCEPT !.rows =
        [t \in {e \in DOMAIN frame.rows :
                  \A c \in frame.columns : ~IsNaN(frame.rows[e][c])}
            |-> frame.rows[t]]]

\* Mutant of IsEmptyFrame: no table is empty.
IsEmptyFrameNever(frame) == FALSE

\* DataFrame.empty: an axis of length 0.
IsEmptyFrame(frame) == frame.columns = {} \/ DOMAIN frame.rows = {}

\* portfolio_logic.py lines 18-27
calculate_returns(prices_dict, pad) ==
    DropNaRows(DataFrame(
        [ticker \in DOMAIN prices_dict |->
            dropna(pct_change(prices_dict[ticker], pad))]))

\* routes.py lines 69-77
calculate_returns_api(prices_dict, pad) ==
    DropNaRows(DataFrame(
        [ticker \in DOMAIN prices_dict |->
            dropna(pct_change(ToNumeric(prices_dict[ticker]), pad))]))

RtOnly == UNCHANGED <<grid, fc, met, sx, batch, st, pf, rp, app, dm>>

RtInit ==
    /\ \E prices \in PriceDicts, pad \in BOOLEAN :
          rt = [pc |-> "start", prices_dict |-> prices, pad |-> pad,
                by |-> "none", ret |-> NoneRec]
    /\ grid = Idle /\ fc = Idle /\ met = Idle /\ sx = Idle /\ batch = Idle
    /\ st = Idle /\ pf = Idle /\ rp = Idle
    /\ app = Idle /\ dm = Idle

ReturnsApp ==
    /\ rt.pc = "start"
    /\ rt' = [rt EXCEPT !.pc = "done", !.by = "portfolio_logic.py",
                 !.ret = calculate_returns(rt.prices_dict, rt.pad)]
    /\ RtOnly

ReturnsApi ==
    /\ rt.pc = "start"
    /\ rt' = [rt EXCEPT !.pc = "done", !.by = "routes.py",
                 !.ret = calculate_returns_api(rt.prices_dict, rt.pad)]
    /\ RtOnly

RtNext ==
    \/ ReturnsApp
    \/ ReturnsApi

SpecReturns == RtInit /\ [][RtNext]_vars

\* The timestamps at which an asset has a return: an observation that is
\* not the first, present together with the one before it.
ReturnDays(close) ==
    {t \in DOMAIN close :
        /\ PrevIn(DOMAIN close, t) # -1
        /\ ~IsNaN(close[t])
        /\ ~IsNaN(close[PrevIn(DOMAIN close, t)])}

\* The simple return between the observation at t and the one before it.
SimpleReturn(close, t) ==
    FSub(FDiv(close[t], close[PrevIn(DOMAIN close, t)]), Num(1))

\* C12: the return matrix has exactly the timestamps at which every asset
\* has a return, every row has a value for every asset, every value is the
\* return between two observed closes (none is forward-filled), and assets
\* with one and the same complete date range of length N give N-1 rows.
C12_ReturnsInnerJoin ==
    rt.pc = "done" =>
        LET prices == rt.prices_dict
            days == DOMAIN rt.ret.rows
        IN /\ rt.ret.columns = DOMAIN prices
           /\ prices # <<>> =>
                 days = {t \in 1..MaxDays :
                           \A c \in DOMAIN prices : t \in ReturnDays(prices[c])}
           /\ \A t \in days : \A c \in DOMAIN prices :
                 /\ ~IsNaN(rt.ret.rows[t][c])
                 /\ rt.ret.rows[t][c] = SimpleReturn(prices[c], t)
           /\ \A n \in 1..MaxDays :
                 (/\ prices # <<>>
                  /\ \A c \in DOMAIN prices :
                        /\ DOMAIN prices[c] = 1..n
                        /\ \A t \in 1..n : ~IsNaN(prices[c][t]))
                   => Cardinality(days) = n - 1

----------------------------------------------------------------------------
(* optimize_portfolio and run_portfolio_optimization, in the versions of   *)
(* StockApp/portfolio_logic.py, beta-test/backend/api/routes.py and        *)
(* Portfolio_optimizer/main2.py (whose request is main()).  The SLSQP      *)
(* solver is external: its OptimizeResult is any (success, x, message).    *)

Versions == {"portfolio_logic.py", "routes.py", "main2.py"}

SolverMessages == {"Iteration limit reached",
                   "Positive directional derivative for linesearch"}

\* scipy.optimize.minimize keeps x inside the bounds (0, 1), and SLSQP
\* reports success only when the constraint sum(x) - 1 = 0 is met within
\* its accuracy (1e-6 by default); a run that failed stops at any x.
SolverResults(n) ==
    {r \in [success : BOOLEAN, x : SeqsOfLen(WeightGrid, n),
            message : SolverMessages] :
        r.success => FSum(r.x) = Num(1)}

Returned(x) == [raised |-> FALSE, exc |-> None, value |-> x]
Raised(msg) == [raised |-> TRUE, exc |-> msg, value |-> None]

\* Mutant of optimize_portfolio: result.success is not looked at.
optimize_portfolio_unchecked(result) == Returned(result.x)

\* StockApp/portfolio_logic.py lines 61-73
optimize_portfolio(result) ==
    IF ~result.success
    THEN Raised(<<"Optimization failed: ", result.message>>)
    ELSE Returned(result.x)

\* beta-test/backend/api/routes.py lines 96-106
optimize_portfolio_weights(result) ==
    IF ~result.success
    THEN Raised(<<"Optimization failed: ", result.message>>)
    ELSE Returned(result.x)

\* Portfolio_optimizer/main2.py lines 60-64
optimize_portfolio_cli(result) == Returned(result.x)

\* The moments of the request's return table, for n columns.
RequestMeans(n) == {[i \in 1..n |-> v] : v \in {Num(0), Num(1)}}
RequestDevs(n) == {[i \in 1..n |-> 0], [i \in 1..n |-> IF i % 2 = 1 THEN 1 ELSE -1]}

\* portfolio_logic.py line 136 and main2.py line 66; routes.py line 108
NumPortfolios == 5000
NumPortfoliosApi == 2000

\* for i, ticker in enumerate(tickers): mean_returns[i], cov_matrix[i, i]
AssetStats(n_tickers, mean_returns, cov_matrix) ==
    [i \in 1..n_tickers |->
        [ticker |-> i,
         return |-> FScale(mean_returns[i], TradingDays),
         volatility |-> SqrtScale(FSqrt(cov_matrix[i][i]), TradingDays)]]

PfOnly == UNCHANGED <<grid, fc, met, sx, batch, st, rt, rp, app, dm>>

\* The price mappings of a request: a ticker has no rows, the first two
\* days or the last two days, at the same price.
RequestFrames ==
    {[t \in S |-> Num(1)] : S \in {{}, 1..2, (MaxDays - 1)..MaxDays}}
RequestPrices == UNION {[T -> RequestFrames] : T \in SUBSET ReturnTickers}

\* main2.py lines 37-40: prices.pct_change(fill_method=None).dropna()
calculate_returns_cli(prices_dict) == calculate_returns(prices_dict, FALSE)

PfInit ==
    /\ \E v \in Versions, nt \in 0..(MaxAssets + 1),
          prices \in RequestPrices, pad \in BOOLEAN, rf \in RfValues :
          pf = [pc |-> "start", version |-> v, n_tickers |-> nt,
                prices_dict |-> prices, pad |-> pad,
                n_columns |-> Cardinality(DOMAIN prices),
                returns_df |-> NoneRec, rf_rate |-> rf,
                mean_returns |-> None, cov_matrix |-> None,
                solver |-> NoneRec, solver_runs |-> 0,
                optimal_weights |-> None, stats |-> None,
                random_portfolios |-> 0, asset_stats |-> None,
                exc |-> None, ret |-> NoneRec, ret_error |-> None]
    /\ grid = Idle /\ fc = Idle /\ met = Idle /\ sx = Idle /\ batch = Idle
    /\ st = Idle /\ rt = Idle /\ rp = Idle
    /\ app = Idle /\ dm = Idle

\* portfolio_logic.py lines 115-116; main2.py lines 31-32 (get_data)
PfCheckTickers ==
    /\ pf.pc = "start"
    /\ pf' = IF pf.version = "portfolio_logic.py" /\ pf.n_tickers < 2
             THEN [pf EXCEPT !.pc = "done",
                     !.ret_error = PyStr("Se necesitan al menos 2 tickers para optimizacion de cartera")]
             ELSE IF pf.version = "main2.py" /\ pf.n_columns < 2
             THEN [pf EXCEPT !.pc = "except",
                     !.exc = <<"Need at least 2 valid tickers. Only got: ", "[..]">>]
             ELSE [pf EXCEPT !.pc = "returns"]
    /\ PfOnly

\* portfolio_logic.py lines 119-126; routes.py lines 123-128;
\* main2.py lines 184-188
PfReturns ==
    /\ pf.pc = "returns"
    /\ \E m \in RequestMeans(pf.n_columns), dev \in RequestDevs(pf.n_columns) :
          LET returns_df ==
                  CASE pf.version = "portfolio_logic.py" ->
                          calculate_returns(pf.prices_dict, pf.pad)
                    [] pf.version = "routes.py" ->
                          calculate_returns_api(pf.prices_dict, pf.pad)
                    [] pf.version = "main2.py" ->
                          calculate_returns_cli(pf.prices_dict)
              empty == IsEmptyFrame(returns_df)
          IN
          pf' = IF empty /\ pf.version = "portfolio_logic.py"
                THEN [pf EXCEPT !.pc = "done", !.returns_df = returns_df,
                        !.ret_error = PyStr("No hay suficientes datos para calcular retornos")]
                ELSE IF empty /\ pf.version = "routes.py"
                THEN [pf EXCEPT !.pc = "done", !.returns_df = returns_df,
                        !.ret_error = PyStr("Insufficient data for returns calculation")]
                ELSE [pf EXCEPT !.pc = "optimize",
                        !.returns_df = returns_df,
                        !.mean_returns =
                            IF empty THEN [i \in 1..pf.n_columns |-> NaN]
                            ELSE m,
                        !.cov_matrix =
                            IF empty
                            THEN [i \in 1..pf.n_columns |->
                                    [j \in 1..pf.n_columns |-> NaN]]
                            ELSE CovOf(dev)]
    /\ PfOnly

\* portfolio_logic.py line 129; routes.py line 130; main2.py line 192
PfOptimize ==
    /\ pf.pc = "optimize"
    /\ \E result \in SolverResults(pf.n_columns) :
          LET out == CASE pf.version = "portfolio_logic.py" ->
                              optimize_portfolio(result)
                       [] pf.version = "routes.py" ->
                              optimize_portfolio_weights(result)
                       [] pf.version = "main2.py" ->
                              optimize_portfolio_cli(result)
          IN pf' = [pf EXCEPT !.pc = IF out.raised THEN "except" ELSE "stats",
                              !.solver = result,
                              !.solver_runs = @ + 1,
                              !.exc = out.exc,
                              !.optimal_weights = out.value]
    /\ PfOnly

\* portfolio_logic.py lines 130-132; routes.py line 131; main2.py 193-194
PfStats ==
    /\ pf.pc = "stats"
    /\ pf' = [pf EXCEPT !.pc = "frontier",
                 !.stats =
                    CASE pf.version = "portfolio_logic.py" ->
                            portfolio_stats(pf.optimal_weights, pf.mean_returns,
                                            pf.cov_matrix, pf.rf_rate)
                      [] pf.version = "routes.py" ->
                            portfolio_stats_api(pf.optimal_weights,
                                pf.mean_returns, pf.cov_matrix, pf.rf_rate)
                      [] pf.version = "main2.py" ->
                            portfolio_stats_cli(pf.optimal_weights,
                                pf.mean_returns, pf.cov_matrix, pf.rf_rate)]
    /\ PfOnly

\* portfolio_logic.py lines 135-137; routes.py line 133; main2.py line 198
PfFrontier ==
    /\ pf.pc = "frontier"
    /\ pf' = [pf EXCEPT !.pc = "assets",
                 !.random_portfolios =
                    IF pf.version = "routes.py" THEN NumPortfoliosApi
                    ELSE NumPortfolios]
    /\ PfOnly

\* portfolio_logic.py lines 140-162; routes.py lines 135-165;
\* main2.py lines 200-225.  mean_returns[i] raises IndexError when the
\* ticker list is longer than the return table has columns; main() has
\* replaced tickers by the valid ones (line 182).
PfAssets ==
    /\ pf.pc = "assets"
    /\ LET nt == IF pf.version = "main2.py" THEN pf.n_columns
                 ELSE pf.n_tickers
       IN pf' = IF nt > pf.n_columns
                THEN [pf EXCEPT !.pc = "except",
                        !.exc = <<"index ", "i",
                                  " is out of bounds for axis 0 with size ",
                                  "n">>]
                ELSE [pf EXCEPT !.pc = "done",
                        !.asset_stats =
                            AssetStats(nt, pf.mean_returns, pf.cov_matrix),
                        !.ret = [optimal_weights |-> pf.optimal_weights,
                                 optimal_stats |-> pf.stats,
                                 random_portfolios |-> pf.random_portfolios,
                                 asset_stats |->
                                    AssetStats(nt, pf.mean_returns,
                                               pf.cov_matrix)]]
    /\ PfOnly

\* Any other exception inside the try block (calculate_returns, minimize,
\* generate_random_portfolios), with any str(e).
PfRaise ==
    /\ pf.pc \in {"returns", "optimize", "frontier"}
    /\ \E m \in ExcMessages : pf' = [pf EXCEPT !.pc = "except", !.exc = PyStr(m)]
    /\ PfOnly

\* portfolio_logic.py lines 164-167; routes.py lines 166-168;
\* main2.py lines 227-229 (prints the error, no result)
PfExcept ==
    /\ pf.pc = "except"
    /\ pf' = [pf EXCEPT !.pc = "done",
                 !.ret = NoneRec,
                 !.ret_error =
                    IF pf.version = "routes.py" THEN pf.exc
                    ELSE IF pf.version = "portfolio_logic.py"
                    THEN <<"Error en optimizacion: ">> \o pf.exc
                    ELSE <<"Error: ">> \o pf.exc]
    /\ PfOnly

PfNext ==
    \/ PfCheckTickers
    \/ PfReturns
    \/ PfOptimize
    \/ PfStats
    \/ PfFrontier
    \/ PfAssets
    \/ PfRaise
    \/ PfExcept

SpecPortfolio == PfInit /\ [][PfNext]_vars

\* A message that occurs inside a formatted string.
Carries(text, message) ==
    text # None /\ \E i \in DOMAIN text : text[i] = message

\* C9: when the solver reports that it did not converge, the optimizer
\* returns no weight vector and fails with an error that carries the
\* solver's message, the solver is not run a second time, and the request
\* returns an error and no result.
C9_SolverFailureIsAnError ==
    (pf.solver # NoneRec /\ ~pf.solver.success) =>
        /\ pf.optimal_weights = None
        /\ Carries(pf.exc, pf.solver.message)
        /\ pf.solver_runs = 1
        /\ pf.pc = "done" =>
              /\ pf.ret = NoneRec
              /\ Carries(pf.ret_error, pf.solver.message)

\* The return table of the request's price mapping has no row.
ZeroRows == DOMAIN calculate_returns(pf.prices_dict, pf.pad).rows = {}

InsufficientData ==
    {PyStr("No hay suficientes datos para calcular retornos"),
     PyStr("Insufficient data for returns calculation")}

----------------------------------------------------------------------------
(* The two forecasting engines side by side, and all three entry points.   *)

EnginesInit == FcInit \/ SxInit

EnginesNext ==
    \/ FcNext
    \/ SxNext

SpecEngines == EnginesInit /\ [][EnginesNext]_vars

EntryInit == FcInit \/ SxInit \/ PfInit

EntryNext ==
    \/ FcNext
    \/ SxNext
    \/ PfNext

SpecEntry == EntryInit /\ [][EntryNext]_vars

\* C6: a successful forecast of run_arima_forecast or fit_sarimax has
\* forecast, lower bound, upper bound and future dates of length horizon
\* each.
C6_HorizonLengths ==
    /\ FcOk =>
        /\ Len(fc.result.forecast) = fc.horizon
        /\ Len(fc.result.lower_bound) = fc.horizon
        /\ Len(fc.result.upper_bound) = fc.horizon
        /\ Len(fc.result.dates) = fc.horizon
    /\ SxOk =>
        /\ Len(sx.ret.forecast) = sx.forecast_steps
        /\ Len(sx.ret.lower_ci) = sx.forecast_steps
        /\ Len(sx.ret.upper_ci) = sx.forecast_steps
        /\ Len(sx.ret.dates) = sx.forecast_steps

\* A successful weekly forecast of horizon 2 from a Wednesday.
C6_Witness ==
    /\ FcOk
    /\ fc.horizon = 2
    /\ fc.freq_str = "W"
    /\ fc.last_date = <<2>>
    /\ Len(fc.result.dates) = 2

\* C8: every entry point returns exactly one of a complete result with no
\* error, or no result with a non-empty diagnostic string.
C8_ResultXorDiagnostic ==
    /\ fc.pc = "done" =>
          \/ fc.result # NoneRec /\ fc.error = None
          \/ fc.result = NoneRec /\ Truthy(fc.error)
    /\ sx.pc = "done" =>
          \/ sx.ret # NoneRec /\ sx.ret_error = None
          \/ sx.ret = NoneRec /\ Truthy(sx.ret_error)
    /\ (pf.pc = "done" /\ pf.version # "main2.py") =>
          \/ pf.ret # NoneRec /\ pf.ret_error = None
          \/ pf.ret = NoneRec /\ Truthy(pf.ret_error)

\* floor(0.8 * n)
FloorFourFifths(n) == CHOOSE k \in 0..n : 10 * k <= 8 * n /\ 8 * n < 10 * (k + 1)

\* C13: train is the first floor(0.8*n) observations and test the remaining
\* ones: together they are the positions 1..n in order, and they share none.
C13_PositionalSplit ==
    fc.pc \notin {"idle", "split"} =>
        /\ fc.train = <<1, FloorFourFifths(fc.n)>>
        /\ fc.test = <<FloorFourFifths(fc.n) + 1, fc.n>>
        /\ SliceLen(fc.train) + SliceLen(fc.test) = fc.n
        /\ \A i \in 1..fc.n :
              (fc.train[1] <= i /\ i <= fc.train[2])
                  # (fc.test[1] <= i /\ i <= fc.test[2])

\* A finished forecast of a series of 6 observations: 4 in train, 2 in test.
C13_Witness ==
    /\ FcOk
    /\ fc.n = 6
    /\ fc.train = <<1, 4>>
    /\ fc.test = <<5, 6>>

\* C14: the order search is given no observation that the backtest metrics
\* are computed on: in run_arima_forecast it is given the train slice, and
\* in fit_sarimax none of the compared observations.
C14_SearchSeesTrainOnly ==
    /\ (fc.pc # "idle" /\ fc.search_data # None) =>
          /\ fc.search_data = fc.train
          /\ \A i \in 1..fc.n :
                (fc.test[1] <= i /\ i <= fc.test[2]) =>
                    ~(fc.search_data[1] <= i /\ i <= fc.search_data[2])
    /\ (sx.pc # "idle" /\ sx.search_data # None /\ sx.metrics # NoneRec) =>
          \A i \in 1..Cardinality(sx.series) :
              (sx.metrics.actuals[1] <= i /\ i <= sx.metrics.actuals[2]) =>
                  ~(sx.search_data[1] <= i /\ i <= sx.search_data[2])

\* The orders the grid search fits when called with its defaults, as
\* run_arima_forecast calls it (analysis_logic.py lines 15, 22-27, 79, 81).
GridCandidates ==
    {o \in Orders(GridDefaultP, GridDefaultD, GridDefaultQ) :
        ~GridSkips(o[1], o[2], o[3])}

\* C15: the grid search called with its defaults fits every (p,d,q) with
\* 0<=p<=5, 0<=d<=2, 0<=q<=5 except (0,0,0), and every order the stepwise
\* search returns is one of its candidates.
C15_SameOrderSpace ==
    fc.order_from \in {"stepwise", "grid"} =>
        /\ GridCandidates = Orders(5, 2, 5) \ {<<0, 0, 0>>}
        /\ fc.order_from = "stepwise" => fc.order \in GridCandidates

\* The longest period of a frequency, in days.
PeriodDays(freq) ==
    CASE freq = "D" -> 1
      [] freq \in {"W", WeeklyOnMonday} -> 7
      [] OTHER -> 31

\* b is exactly one period of freq after a.
OnePeriodApart(a, b, freq) ==
    IF freq = "M"
    THEN /\ a < b
         /\ a \in MonthEnds /\ b \in MonthEnds
         /\ \A x \in (a + 1)..(b - 1) : x \notin MonthEnds
    ELSE b - a = PeriodDays(freq)

\* The dates continue a series whose last observation is on day last.
ContinuesSeries(dates, last, freq) ==
    /\ \A i \in DOMAIN dates : dates[i] > last
    /\ \A i \in DOMAIN dates : i > 1 =>
          dates[i - 1] < dates[i] /\ OnePeriodApart(dates[i - 1], dates[i], freq)
    /\ dates # <<>> => dates[1] - last <= PeriodDays(freq)

\* C16: the future timestamps are strictly increasing, all later than the
\* last observed timestamp, one period apart, and the first is at most one
\* period after the last observed timestamp, whether or not that one falls
\* on the frequency's anchor day.
C16_FutureDatesContinue ==
    /\ FcOk => ContinuesSeries(fc.result.dates, fc.last_date[1], fc.freq_str)
    /\ SxOk => ContinuesSeries(sx.ret.dates, SetMax(sx.series), sx.freq)

\* C17: portfolio_stats of portfolio_logic.py and of routes.py returns
\* annualReturn = 252 * (weights . meanReturns) and annualVolatility =
\* sqrt(252) * sqrt(w' Cov w), also when the volatility is exactly 0.
C17_AnnualizedStatistics ==
    (st.pc = "done" /\ st.by \in {"portfolio_logic.py", "routes.py"}) =>
        /\ st.ret[1] = FMul(Num(252), Dot(st.mean_returns, st.weights))
        /\ st.ret[2] = FSqrt(FMul(Num(252),
                                  Quadratic(st.weights, st.cov_matrix)))

\* C18: a weight vector returned by optimize_portfolio or
\* optimize_portfolio_weights has one entry per asset, every entry in
\* [0,1], and entries that sum to 1.
C18_OptimalWeightsFeasible ==
    (/\ pf.pc # "idle" /\ pf.version \in {"portfolio_logic.py", "routes.py"}
     /\ pf.optimal_weights # None) =>
        /\ Len(pf.optimal_weights) = pf.n_columns
        /\ \A i \in DOMAIN pf.optimal_weights :
              /\ FLe(Num(0), pf.optimal_weights[i])
              /\ FLe(pf.optimal_weights[i], Num(1))
        /\ FSum(pf.optimal_weights) = Num(1)

\* A request of portfolio_logic.py over two assets that returned the
\* equal-weight vector.
C18_Witness ==
    /\ pf.pc = "done"
    /\ pf.version = "portfolio_logic.py"
    /\ pf.ret # NoneRec
    /\ pf.n_columns = 2
    /\ pf.ret.optimal_weights = <<Rat(1, 2), Rat(1, 2)>>

----------------------------------------------------------------------------
(* generate_random_portfolios: StockApp/portfolio_logic.py lines 76-98 and *)
(* beta-test/backend/api/routes.py lines 108-119.                          *)

\* Most portfolios asked for.
MaxPortfolios == 2

\* np.random.random(num_assets): every value is in [0, 1), 0.0 included.
DrawValues == {Rat(i, WeightSteps) : i \in 0..(WeightSteps - 1)}

\* weights /= np.sum(weights)
Normalized(draw) == [i \in DOMAIN draw |-> FDiv(draw[i], FSum(draw))]

RpOnly == UNCHANGED <<grid, fc, met, sx, batch, st, pf, rt, app, dm>>

RpInit ==
    /\ \E v \in {"portfolio_logic.py", "routes.py"}, n \in 1..MaxAssets,
          count \in 0..MaxPortfolios, rf \in RfValues :
          \E m \in RequestMeans(n), dev \in RequestDevs(n) :
             rp = [pc |-> "loop", version |-> v, num_assets |-> n,
                   num_portfolios |-> count, mean_returns |-> m,
                   cov_matrix |-> CovOf(dev), rf_rate |-> rf,
                   i |-> 0, weights |-> <<>>, results |-> <<>>,
                   ret |-> NoneRec]
    /\ grid = Idle /\ fc = Idle /\ met = Idle /\ sx = Idle /\ batch = Idle
    /\ st = Idle /\ pf = Idle /\ rt = Idle
    /\ app = Idle /\ dm = Idle

\* One iteration of the loop (portfolio_logic.py lines 86-96).
RpSample ==
    /\ rp.pc = "loop"
    /\ rp.i < rp.num_portfolios
    /\ \E draw \in SeqsOfLen(DrawValues, rp.num_assets) :
          LET weights == Normalized(draw)
              point == IF rp.version = "routes.py"
                       THEN portfolio_stats_api(weights, rp.mean_returns,
                                                rp.cov_matrix, rp.rf_rate)
                       ELSE portfolio_stats(weights, rp.mean_returns,
                                            rp.cov_matrix, rp.rf_rate)
          IN rp' = [rp EXCEPT !.i = @ + 1,
                              !.weights = Append(@, weights),
                              !.results = Append(@, <<point[2], point[1],
                                                      point[3]>>)]
    /\ RpOnly

\* line 98: return results
RpReturn ==
    /\ rp.pc = "loop"
    /\ rp.i >= rp.num_portfolios
    /\ rp' = [rp EXCEPT !.pc = "done", !.ret = rp.results]
    /\ RpOnly

RpNext ==
    \/ RpSample
    \/ RpReturn

SpecRandomPortfolios == RpInit /\ [][RpNext]_vars

\* C19: generate_random_portfolios returns exactly num_portfolios points,
\* and the weight vector behind every point has every entry in [0,1] and
\* entries that sum to 1, for every draw, the all-zero draw included.
C19_RandomPortfoliosOnSimplex ==
    rp.pc = "done" =>
        /\ Len(rp.ret) = rp.num_portfolios
        /\ \A j \in DOMAIN rp.weights :
              /\ \A a \in DOMAIN rp.weights[j] :
                    /\ FLe(Num(0), rp.weights[j][a])
                    /\ FLe(rp.weights[j][a], Num(1))
              /\ FSum(rp.weights[j]) = Num(1)

\* C20: when fit_sarimax uses the exogenous series, the aligned target and
\* the exogenous frame have the same timestamps, the exogenous value at a
\* timestamp t is the observed raw value of the exogenous row just before
\* t, and the target keeps exactly the timestamps that have such a value.
C20_ExogLaggedAndAligned ==
    (sx.pc # "idle" /\ sx.exog_df # NoneRec) =>
        /\ DOMAIN sx.exog_df = sx.series
        /\ \A t \in sx.series :
              /\ sx.exog_df[t] < t
              /\ sx.exog_df[t] \in sx.exog.idx \ sx.exog.nan
              /\ \A e \in sx.exog.idx : ~(sx.exog_df[t] < e /\ e < t)
        /\ sx.series =
              {t \in sx.history \cap sx.exog.idx :
                  \E e \in sx.exog.idx \ sx.exog.nan :
                      e < t /\ \A x \in sx.exog.idx : ~(e < x /\ x < t)}

\* A fit with exogenous data in which day 5 has no exogenous value: day 1
\* (no predecessor) and day 6 (predecessor missing) leave the target, and
\* day 5 carries the value of day 4.
C20_Witness ==
    /\ SxOk
    /\ sx.exog_df # NoneRec
    /\ sx.exog.nan = {5}
    /\ sx.series = (2..12) \ {6}
    /\ sx.exog_df[5] = 4

----------------------------------------------------------------------------
(* PredictionWorker.run (worker_threads.py lines 70-94): the batch of      *)
(* forecasts over self.tickers.                                            *)

\* Longest ticker list and number of distinct tickers.
MaxTickers == 3
TickerNames == 1..2

\* What run_arima_forecast returns (analysis_logic.py lines 129, 134): a
\* result and None, or None and str(e).
ForecastReturns ==
    {[pred_data |-> "prediction", error |-> None]}
        \cup {[pred_data |-> "None", error |-> PyStr(m)] : m \in ExcMessages}

\* Mutant of AppendError: the message is dropped.
AppendErrorDropped(errors, ticker, error) == errors

\* line 86: errors.append(f"{ticker}: {error}")
AppendError(errors, ticker, error) ==
    Append(errors, [ticker |-> ticker, text |-> <<ticker, ": ">> \o error])

\* line 88: predictions[ticker] = pred_data
SetPrediction(predictions, ticker, pred_data) ==
    [t \in DOMAIN predictions \cup {ticker} |->
        IF t = ticker THEN pred_data ELSE predictions[t]]

BatchOnly == UNCHANGED <<grid, fc, met, sx, st, pf, rt, rp, app, dm>>

\* The tickers are those whose data was stored (main.py line 202 after
\* worker_threads.py lines 41-42), a ticker typed twice is in the list
\* twice; the forecast of a ticker is a function of its data.
BatchInit ==
    /\ \E len \in 0..MaxTickers :
          \E ts \in SeqsOfLen(TickerNames, len),
             returns \in [TickerNames -> ForecastReturns] :
             batch = [pc |-> "loop", tickers |-> ts,
                      current_data |-> {ts[i] : i \in 1..len},
                      returns |-> returns, idx |-> 1,
                      processed |-> <<>>,
                      predictions |-> <<>>, errors |-> <<>>,
                      emitted |-> NoneRec]
    /\ grid = Idle /\ fc = Idle /\ met = Idle /\ sx = Idle
    /\ st = Idle /\ pf = Idle /\ rt = Idle /\ rp = Idle
    /\ app = Idle /\ dm = Idle

\* lines 75-88: one iteration of the loop, on a ticker whose forecast
\* returned an error; lines 93-94 when self.current_data[ticker] raises.
BatchTickerFails ==
    /\ batch.pc = "loop"
    /\ batch.idx <= Len(batch.tickers)
    /\ LET ticker == batch.tickers[batch.idx]
           r == batch.returns[ticker]
       IN /\ ticker \in batch.current_data => Truthy(r.error)
          /\ batch' =
               IF ticker \notin batch.current_data
               THEN [batch EXCEPT !.pc = "emitted",
                        !.emitted = [predictions |-> <<>>,
                                     errors |-> <<[ticker |-> 0,
                                         text |-> <<"Error critico: ", "e">>]>>]]
               ELSE [batch EXCEPT !.idx = @ + 1,
                        !.processed = Append(@, ticker),
                        !.errors = AppendError(@, ticker, r.error)]
    /\ BatchOnly

\* lines 75-88: one iteration on a ticker whose forecast returned no error
\* or an empty one.
BatchTickerPredicted ==
    /\ batch.pc = "loop"
    /\ batch.idx <= Len(batch.tickers)
    /\ LET ticker == batch.tickers[batch.idx]
           r == batch.returns[ticker]
       IN /\ ticker \in batch.current_data
          /\ ~Truthy(r.error)
          /\ batch' = [batch EXCEPT !.idx = @ + 1,
                          !.processed = Append(@, ticker),
                          !.predictions = SetPrediction(@, ticker, r.pred_data)]
    /\ BatchOnly

\* line 92: self.finished.emit(predictions, errors)
BatchEmit ==
    /\ batch.pc = "loop"
    /\ batch.idx > Len(batch.tickers)
    /\ batch' = [batch EXCEPT !.pc = "emitted",
                    !.emitted = [predictions |-> batch.predictions,
                                 errors |-> batch.errors]]
    /\ BatchOnly

BatchNext ==
    \/ BatchTickerFails
    \/ BatchTickerPredicted
    \/ BatchEmit

SpecBatch == BatchInit /\ [][BatchNext]_vars

InErrors(errors, ticker) == \E j \in DOMAIN errors : errors[j].ticker = ticker

\* C7: a ticker that fails does not stop the batch: when the batch has
\* finished every ticker of the list was processed, and each of them is
\* either a key of the emitted predictions map or the subject of a message
\* of the emitted error list, never both and never neither.
C7_BatchPartialSuccess ==
    batch.pc = "emitted" =>
        /\ batch.processed = batch.tickers
        /\ \A i \in DOMAIN batch.tickers :
              LET t == batch.tickers[i] IN
              (t \in DOMAIN batch.emitted.predictions)
                  # InErrors(batch.emitted.errors, t)

\* A finished batch whose first ticker failed and whose second succeeded.
C7_Witness ==
    /\ batch.pc = "emitted"
    /\ batch.tickers = <<1, 2>>
    /\ DOMAIN batch.emitted.predictions = {2}
    /\ Len(batch.emitted.errors) = 1
    /\ batch.emitted.errors[1].ticker = 1

\* C28: every value of the predictions map a batch emits is a forecast
\* result, and a ticker whose forecast failed is in the error list and not
\* in the map, whatever the message of the failure.
C28_PredictionsAreResults ==
    batch.pc = "emitted" =>
        /\ \A t \in DOMAIN batch.emitted.predictions :
              batch.emitted.predictions[t] = "prediction"
        /\ \A i \in DOMAIN batch.processed :
              LET t == batch.processed[i] IN
              batch.returns[t].pred_data = "None" =>
                  /\ InErrors(batch.emitted.errors, t)
                  /\ t \notin DOMAIN batch.emitted.predictions

----------------------------------------------------------------------------
(* DataManager (memory_management.py lines 9-61).  A dict is an object of  *)
(* the heap: heap[id] is the sequence of its keys in insertion order, and  *)
(* current_data holds the id of a dict, so that clearing a dict in place   *)
(* is seen through every reference to it.                                  *)

\* Largest max_tickers a DataManager is built with, and the number of calls
\* made on one DataManager.
MaxLimit == 2
MaxCalls == 3

\* The keys of the dict built by d[t] = ... for t in ts, in insertion order.
RECURSIVE DictKeys(_)
DictKeys(ts) ==
    IF ts = <<>> THEN <<>>
    ELSE LET init == DictKeys(SubSeq(ts, 1, Len(ts) - 1))
             last == ts[Len(ts)]
         IN IF \E i \in DOMAIN init : init[i] = last THEN init
            ELSE Append(init, last)

\* lines 14-17: __init__; dict 0 is the empty dict made here.
DataManager(max_tickers) ==
    [current_data |-> 0, predictions |-> <<>>, max_tickers |-> max_tickers]

\* lines 28-31
clear_predictions(mgr) == [mgr EXCEPT !.predictions = <<>>]

\* lines 21-26: both dicts are cleared in place.
clear_all(mgr, heap) ==
    [mgr |-> [mgr EXCEPT !.predictions = <<>>],
     heap |-> [heap EXCEPT ![mgr.current_data] = <<>>]]

\* lines 33-55: the old dict is emptied key by key, the predictions are
\* cleared, new_data is assigned, and only then is the limit tested: raised
\* says that ValueError left the call.
set_data(mgr, heap, new_data, new_tickers) ==
    [mgr |-> [clear_predictions(mgr) EXCEPT !.current_data = new_data],
     heap |-> [heap EXCEPT ![mgr.current_data] = <<>>],
     raised |-> Len(new_tickers) > mgr.max_tickers,
     ret |-> new_tickers]

\* lines 57-61
set_predictions(mgr, new_predictions) ==
    [mgr EXCEPT !.predictions = new_predictions]

\* The ticker lists of the model: up to MaxTickers names, repeats included.
TickerLists == UNION {SeqsOfLen(TickerNames, len) : len \in 0..MaxTickers}

DmOnly == UNCHANGED <<grid, fc, met, sx, batch, st, pf, rt, rp, app>>

\* last is history: the last call, whether it raised, and the data and
\* predictions held before it.
DmInit ==
    /\ \E limit \in 1..MaxLimit :
          dm = [pc |-> "ready", mgr |-> DataManager(limit),
                heap |-> (0 :> <<>>), calls |-> 0,
                last |-> [op |-> "__init__", raised |-> FALSE,
                          data |-> <<>>, predictions |-> <<>>]]
    /\ grid = Idle /\ fc = Idle /\ met = Idle /\ sx = Idle /\ batch = Idle
    /\ st = Idle /\ pf = Idle /\ rt = Idle /\ rp = Idle /\ app = Idle

DmBefore(op, raised) ==
    [op |-> op, raised |-> raised,
     data |-> dm.heap[dm.mgr.current_data],
     predictions |-> dm.mgr.predictions]

\* set_data(new_data, new_tickers) with a fresh dict whose keys are the
\* tickers of the list.
DmSetData ==
    /\ dm.pc = "ready" /\ dm.calls < MaxCalls
    /\ \E ts \in TickerLists :
          LET id == dm.calls + 1
              r == set_data(dm.mgr, dm.heap @@ (id :> DictKeys(ts)), id, ts)
          IN dm' = [dm EXCEPT !.mgr = r.mgr, !.heap = r.heap,
                              !.calls = @ + 1,
                              !.last = DmBefore("set_data", r.raised)]
    /\ DmOnly

DmSetPredictions ==
    /\ dm.pc = "ready" /\ dm.calls < MaxCalls
    /\ \E S \in SUBSET TickerNames :
          dm' = [dm EXCEPT
                    !.mgr = set_predictions(@, [t \in S |-> "prediction"]),
                    !.calls = @ + 1,
                    !.last = DmBefore("set_predictions", FALSE)]
    /\ DmOnly

DmClearPredictions ==
    /\ dm.pc = "ready" /\ dm.calls < MaxCalls
    /\ dm' = [dm EXCEPT !.mgr = clear_predictions(@), !.calls = @ + 1,
                        !.last = DmBefore("clear_predictions", FALSE)]
    /\ DmOnly

DmClearAll ==
    /\ dm.pc = "ready" /\ dm.calls < MaxCalls
    /\ LET r == clear_all(dm.mgr, dm.heap)
       IN dm' = [dm EXCEPT !.mgr = r.mgr, !.heap = r.heap, !.calls = @ + 1,
                           !.last = DmBefore("clear_all", FALSE)]
    /\ DmOnly

DmNext ==
    \/ DmSetData
    \/ DmSetPredictions
    \/ DmClearPredictions
    \/ DmClearAll

SpecDataManager == DmInit /\ [][DmNext]_vars

\* C23: a DataManager never holds data for more than max_tickers tickers,
\* and a set_data call that raised the limit error has left the data and
\* the predictions as they were before the call.
C23_TickerLimitEnforced ==
    dm.pc # "idle" =>
        /\ Len(dm.heap[dm.mgr.current_data]) <= dm.mgr.max_tickers
        /\ (dm.last.op = "set_data" /\ dm.last.raised) =>
              /\ dm.heap[dm.mgr.current_data] = dm.last.data
              /\ dm.mgr.predictions = dm.last.predictions

----------------------------------------------------------------------------
(* MultiStockApp (main.py) with its three worker threads                   *)
(* (worker_threads.py).  The main thread runs one handler at a time; a     *)
(* signal emitted by a worker thread waits in the queue of the main        *)
(* thread until its slot runs.                                             *)

\* main.py line 36: DataManager(max_tickers=10)
AppMaxTickers == 10

\* Workers started in one session of the application.
MaxStarts == 3

\* lines 145-150: the parsed ticker lists typed into it: none, one ticker,
\* two tickers, one ticker twice.
AppInputs == {<<>>, <<1>>, <<1, 2>>, <<1, 1>>}

WorkerKinds == {"data", "prediction", "portfolio"}

\* A worker attribute of MultiStockApp that holds no thread (lines 41-43),
\* and the shape of a worker: the arguments of __init__, the locals of
\* run(), and as history the number of finished signals emitted, whether a
\* progress signal followed one, whether the finished slot has run, what
\* the dict it reads held when it started and the columns it computed on.
NoWorker ==
    [pc |-> "none", run |-> 0, tickers |-> <<>>, idx |-> 1,
     current_data |-> 0, valid_tickers |-> <<>>, errors |-> 0,
     predictions |-> <<>>, emitted |-> 0, late |-> FALSE,
     delivered |-> FALSE, seen |-> <<>>, n_columns |-> 0]

\* Mutant of _set_ui_enabled: the controls are never disabled.
SetUiAlwaysEnabled(enabled) == TRUE

\* lines 79-94: every control that starts a worker gets setEnabled(enabled).
SetUiEnabled(enabled) == enabled

\* Mutant of StoredDuringBatch: the worker fills the stored predictions.
StoredDuringBatchShared(stored, partial) == partial

\* worker_threads.py line 73: predictions = {} is a dict of the run, so a
\* result of the loop does not touch the stored predictions.
StoredDuringBatch(stored, partial) == stored

\* Mutant of ExceptEmitsFinished: the handler of an unexpected exception
\* emits nothing.
ExceptEmitsNothing == FALSE

\* worker_threads.py lines 51-54, 93-94, 123-126: except Exception emits
\* finished.
ExceptEmitsFinished == TRUE

ProgressSignal(kind, run) ==
    [sig |-> "progress", kind |-> kind, run |-> run, current_data |-> 0,
     tickers |-> <<>>, predictions |-> <<>>, errors |-> 0]

FinishedSignal(kind, run, current_data, tickers, predictions, errors) ==
    [sig |-> "finished", kind |-> kind, run |-> run,
     current_data |-> current_data, tickers |-> tickers,
     predictions |-> predictions, errors |-> errors]

\* self.progress.emit(...) of worker w: the signal joins the queue.
EmitProgress(queue, w, kind) == Append(queue, ProgressSignal(kind, w.run))

\* The history a progress signal leaves in its worker.
AfterProgress(w) == [w EXCEPT !.late = @ \/ w.emitted > 0]

\* The end of run() through except Exception: finished is emitted with
\* empty results and one message (dict 0 stands for the empty dict).
ExceptEnd(a, kind) ==
    LET w == a.worker[kind]
    IN IF ExceptEmitsFinished
       THEN [a EXCEPT !.worker[kind].pc = "finished",
                      !.worker[kind].emitted = @ + 1,
                      !.queue = Append(@, FinishedSignal(kind, w.run, 0,
                                                         <<>>, <<>>, 1))]
       ELSE [a EXCEPT !.worker[kind].pc = "finished"]

AppOnly == UNCHANGED <<grid, fc, met, sx, batch, st, pf, rt, rp, dm>>

\* lines 35-46: the state after __init__.
AppInit ==
    /\ app = [pc |-> "open", ui_enabled |-> TRUE, use_base100 |-> TRUE,
              mgr |-> DataManager(AppMaxTickers), heap |-> (0 :> <<>>),
              tickers |-> <<>>, queue |-> <<>>, starts |-> 0,
              worker |-> [k \in WorkerKinds |-> NoWorker]]
    /\ grid = Idle /\ fc = Idle /\ met = Idle /\ sx = Idle /\ batch = Idle
    /\ st = Idle /\ pf = Idle /\ rt = Idle /\ rp = Idle /\ dm = Idle

\* The button of a handler is enabled and the window is open.
Clickable == app.pc = "open" /\ app.ui_enabled

\* lines 139-185: ejecutar on the parsed ticker list ts.
AppEjecutar ==
    /\ Clickable
    /\ app.starts < MaxStarts
    /\ \E ts \in AppInputs :
          IF ts = <<>> \/ Len(ts) > app.mgr.max_tickers
          THEN app' = app
          ELSE LET r == clear_all(app.mgr, app.heap)
                   id == app.starts + 1
               IN app' = [app EXCEPT
                     !.mgr = r.mgr,
                     !.heap = r.heap @@ (id :> <<>>),
                     !.tickers = <<>>,
                     !.ui_enabled = SetUiEnabled(FALSE),
                     !.starts = id,
                     !.worker.data =
                         [NoWorker EXCEPT !.pc = "running", !.run = id,
                                          !.tickers = ts,
                                          !.current_data = id]]
    /\ AppOnly

\* lines 222-244: generar_prediccion; the worker gets the stored dict itself.
AppGenerarPrediccion ==
    /\ Clickable
    /\ app.starts < MaxStarts
    /\ IF app.heap[app.mgr.current_data] = <<>> \/ app.tickers = <<>>
       THEN app' = app
       ELSE app' = [app EXCEPT
               !.ui_enabled = SetUiEnabled(FALSE),
               !.starts = @ + 1,
               !.worker.prediction =
                   [NoWorker EXCEPT !.pc = "running", !.run = app.starts + 1,
                        !.tickers = app.tickers,
                        !.current_data = app.mgr.current_data,
                        !.seen = app.heap[app.mgr.current_data]]]
    /\ AppOnly

\* lines 304-334: optimizar_cartera; rf_ok says that the rate parses.
AppOptimizarCartera ==
    /\ Clickable
    /\ app.starts < MaxStarts
    /\ \E rf_ok \in BOOLEAN :
          IF \/ app.heap[app.mgr.current_data] = <<>> \/ app.tickers = <<>>
             \/ Len(app.tickers) < 2
             \/ ~rf_ok
          THEN app' = app
          ELSE app' = [app EXCEPT
                  !.ui_enabled = SetUiEnabled(FALSE),
                  !.starts = @ + 1,
                  !.worker.portfolio =
                      [NoWorker EXCEPT !.pc = "running",
                           !.run = app.starts + 1,
                           !.tickers = app.tickers,
                           !.current_data = app.mgr.current_data,
                           !.seen = app.heap[app.mgr.current_data]]]
    /\ AppOnly

\* lines 111-116: toggle_base100; the checkbox is never disabled.
AppToggleBase100 ==
    /\ app.pc = "open"
    /\ app' = [app EXCEPT !.use_base100 = ~@]
    /\ AppOnly

\* lines 364-375: closeEvent terminates a running data or prediction
\* worker, not the portfolio worker, and then clears the stored dicts.
AppCloseEvent ==
    /\ app.pc = "open"
    /\ LET r == clear_all(app.mgr, app.heap)
           stop(w) == IF w.pc = "running" THEN [w EXCEPT !.pc = "terminated"]
                      ELSE w
       IN app' = [app EXCEPT
               !.pc = "closed", !.mgr = r.mgr, !.heap = r.heap,
               !.worker.data = stop(@),
               !.worker.prediction = stop(@)]
    /\ AppOnly

\* The slot of a progress signal (lines 183, 246-248, 332): a message.
AppOnProgress ==
    /\ app.queue # <<>>
    /\ Head(app.queue).sig = "progress"
    /\ app' = [app EXCEPT !.queue = Tail(@)]
    /\ AppOnly

\* The finished slot of signal s has run for its worker.
Delivered(a, s) ==
    IF a.worker[s.kind].run = s.run
    THEN [a EXCEPT !.worker[s.kind].delivered = TRUE]
    ELSE a

\* lines 187-220: _on_data_loaded
AppOnDataLoaded ==
    /\ app.queue # <<>>
    /\ LET s == Head(app.queue)
           a == [Delivered(app, s) EXCEPT !.queue = Tail(@),
                                          !.ui_enabled = SetUiEnabled(TRUE)]
           r == set_data(app.mgr, app.heap, s.current_data, s.tickers)
       IN /\ s.sig = "finished" /\ s.kind = "data"
          /\ app' = IF app.heap[s.current_data] = <<>> THEN a
                    ELSE [a EXCEPT !.mgr = r.mgr, !.heap = r.heap,
                                   !.tickers = IF r.raised THEN @ ELSE r.ret]
    /\ AppOnly

\* lines 250-265: _on_predictions_ready
AppOnPredictionsReady ==
    /\ app.queue # <<>>
    /\ LET s == Head(app.queue)
       IN /\ s.sig = "finished" /\ s.kind = "prediction"
          /\ app' = [Delivered(app, s) EXCEPT
                        !.queue = Tail(@),
                        !.ui_enabled = SetUiEnabled(TRUE),
                        !.mgr = set_predictions(@, s.predictions)]
    /\ AppOnly

\* lines 336-362: _on_portfolio_ready
AppOnPortfolioReady ==
    /\ app.queue # <<>>
    /\ LET s == Head(app.queue)
       IN /\ s.sig = "finished" /\ s.kind = "portfolio"
          /\ app' = [Delivered(app, s) EXCEPT
                        !.queue = Tail(@),
                        !.ui_enabled = SetUiEnabled(TRUE)]
    /\ AppOnly

\* worker_threads.py lines 24-47: one ticker of DataFetchWorker.run; the
\* download gives data, or gives nothing or raises.
DataFetchStep ==
    /\ app.worker.data.pc = "running"
    /\ app.worker.data.idx <= Len(app.worker.data.tickers)
    /\ \E got \in BOOLEAN :
          LET w == app.worker.data
              ticker == w.tickers[w.idx]
          IN app' = [app EXCEPT
                  !.queue = EmitProgress(@, w, "data"),
                  !.heap[w.current_data] =
                      IF got THEN DictKeys(Append(@, ticker)) ELSE @,
                  !.worker.data =
                      [AfterProgress(w) EXCEPT
                          !.idx = @ + 1,
                          !.valid_tickers =
                              IF got THEN Append(@, ticker) ELSE @,
                          !.errors = IF got THEN @ ELSE @ + 1]]
    /\ AppOnly

\* worker_threads.py line 49: finished.emit(current_data, valid_tickers,
\* errors)
DataFetchEmit ==
    /\ app.worker.data.pc = "running"
    /\ app.worker.data.idx > Len(app.worker.data.tickers)
    /\ LET w == app.worker.data
       IN app' = [app EXCEPT
               !.queue = Append(@, FinishedSignal("data", w.run,
                                      w.current_data, w.valid_tickers,
                                      <<>>, w.errors)),
               !.worker.data.pc = "finished",
               !.worker.data.emitted = @ + 1]
    /\ AppOnly

\* worker_threads.py lines 76-90: one ticker of PredictionWorker.run; the
\* forecast returns a result, or None with a message, or None with ''.
PredictionStep ==
    /\ app.worker.prediction.pc = "running"
    /\ app.worker.prediction.idx <= Len(app.worker.prediction.tickers)
    /\ \E r \in ForecastReturns :
          LET w == app.worker.prediction
              ticker == w.tickers[w.idx]
              held == \E i \in DOMAIN app.heap[w.current_data] :
                          app.heap[w.current_data][i] = ticker
              pred == [run |-> w.run, data |-> w.current_data,
                       result |-> r.pred_data]
              partial == IF Truthy(r.error) THEN w.predictions
                         ELSE SetPrediction(w.predictions, ticker, pred)
              a == [app EXCEPT !.queue = EmitProgress(@, w, "prediction"),
                               !.worker.prediction = AfterProgress(w)]
          IN app' =
               IF ~held THEN ExceptEnd(a, "prediction")
               ELSE [a EXCEPT
                       !.mgr.predictions = StoredDuringBatch(@, partial),
                       !.worker.prediction.idx = @ + 1,
                       !.worker.prediction.predictions = partial,
                       !.worker.prediction.errors =
                           IF Truthy(r.error) THEN @ + 1 ELSE @]
    /\ AppOnly

\* worker_threads.py line 92: finished.emit(predictions, errors)
PredictionEmit ==
    /\ app.worker.prediction.pc = "running"
    /\ app.worker.prediction.idx > Len(app.worker.prediction.tickers)
    /\ LET w == app.worker.prediction
       IN app' = [app EXCEPT
               !.queue = Append(@, FinishedSignal("prediction", w.run, 0,
                                      <<>>, w.predictions, w.errors)),
               !.worker.prediction.pc = "finished",
               !.worker.prediction.emitted = @ + 1]
    /\ AppOnly

\* worker_threads.py line 110: the first progress signal of PortfolioWorker.
PortfolioProgress ==
    /\ app.worker.portfolio.pc = "running"
    /\ app.worker.portfolio.idx = 1
    /\ LET w == app.worker.portfolio
       IN app' = [app EXCEPT
               !.queue = EmitProgress(@, w, "portfolio"),
               !.worker.portfolio = [AfterProgress(w) EXCEPT !.idx = 2]]
    /\ AppOnly

\* worker_threads.py lines 111-121: run_portfolio_optimization on the dict
\* as it is now.  It returns an error for an empty return matrix
\* (portfolio_logic.py lines 121-122), through IndexError when there are
\* more tickers than columns (lines 139-141), or when the solver fails.
PortfolioFinish ==
    /\ app.worker.portfolio.pc = "running"
    /\ app.worker.portfolio.idx = 2
    /\ \E solved \in BOOLEAN :
          LET w == app.worker.portfolio
              columns == app.heap[w.current_data]
              error == \/ columns = <<>>
                       \/ Len(w.tickers) > Len(columns)
                       \/ ~solved
              w1 == [w EXCEPT !.n_columns = Len(columns), !.idx = 3,
                              !.errors = IF error THEN 1 ELSE 0,
                              !.pc = "finished", !.emitted = @ + 1]
              fin == FinishedSignal("portfolio", w.run, 0, <<>>, <<>>,
                                    w1.errors)
          IN app' = [app EXCEPT
                  !.queue = IF error THEN Append(@, fin)
                            ELSE Append(EmitProgress(@, w, "portfolio"), fin),
                  !.worker.portfolio = w1]
    /\ AppOnly

\* worker_threads.py lines 51-54, 93-94, 123-126: an exception nobody
\* expected ends run() through the outer except.
WorkerUnexpected ==
    /\ \E kind \in WorkerKinds :
          /\ app.worker[kind].pc = "running"
          /\ app' = ExceptEnd(app, kind)
    /\ AppOnly

WorkerStep ==
    \/ DataFetchStep
    \/ DataFetchEmit
    \/ PredictionStep
    \/ PredictionEmit
    \/ PortfolioProgress
    \/ PortfolioFinish

Deliver ==
    \/ AppOnProgress
    \/ AppOnDataLoaded
    \/ AppOnPredictionsReady
    \/ AppOnPortfolioReady

AppNext ==
    \/ AppEjecutar
    \/ AppGenerarPrediccion
    \/ AppOptimizarCartera
    \/ AppToggleBase100
    \/ AppCloseEvent
    \/ AppOnProgress
    \/ AppOnDataLoaded
    \/ AppOnPredictionsReady
    \/ AppOnPortfolioReady
    \/ DataFetchStep
    \/ DataFetchEmit
    \/ PredictionStep
    \/ PredictionEmit
    \/ PortfolioProgress
    \/ PortfolioFinish
    \/ WorkerUnexpected

SpecApp == AppInit /\ [][AppNext]_vars

\* The scheduler lets a running thread go on and the event loop of the main
\* thread takes the next queued signal.
SpecAppLive == SpecApp /\ WF_vars(WorkerStep) /\ WF_vars(Deliver)

\* A worker between its start and the run of its finished slot.
InFlight(w) == w.pc = "running" \/ (w.emitted > 0 /\ ~w.delivered)

\* The prediction batch of the current worker did not reach its emit.
Unfinished(w) == w.pc \in {"running", "terminated"}

\* No stored prediction was computed by a batch that did not finish.
NoUnfinishedResult ==
    \A t \in DOMAIN app.mgr.predictions :
        ~(/\ Unfinished(app.worker.prediction)
          /\ app.mgr.predictions[t].run = app.worker.prediction.run)

\* C21 as stated: from the start of a prediction batch until its finished
\* slot runs the stored predictions do not change, except by that slot
\* storing what the finished signal carries; they never hold a result of a
\* batch that did not finish.
C21_PredictionsChangeOnlyOnFinished ==
    /\ [](app.pc # "idle" => NoUnfinishedResult)
    /\ [][(app.pc # "idle" /\ InFlight(app.worker.prediction)) =>
            \/ app'.mgr.predictions = app.mgr.predictions
            \/ /\ app'.worker.prediction.delivered
               /\ app.queue # <<>>
               /\ Head(app.queue).kind = "prediction"
               /\ app'.mgr.predictions = Head(app.queue).predictions]_vars

\* C21, amended: as above, except that closeEvent, which terminates the
\* batch, empties the stored predictions.
C21_PredictionsChangeOnFinishedOrClose ==
    /\ [](app.pc # "idle" => NoUnfinishedResult)
    /\ [][(app.pc # "idle" /\ InFlight(app.worker.prediction)) =>
            \/ app'.mgr.predictions = app.mgr.predictions
            \/ /\ app'.worker.prediction.delivered
               /\ app.queue # <<>>
               /\ Head(app.queue).kind = "prediction"
               /\ app'.mgr.predictions = Head(app.queue).predictions
            \/ /\ app.pc = "open" /\ app'.pc = "closed"
               /\ app'.mgr.predictions = <<>>]_vars

\* The window was closed during the second prediction batch, which had a
\* result for its first ticker: the batch is terminated and nothing is
\* stored.
C21_Witness ==
    /\ app.pc = "closed"
    /\ app.starts = 3
    /\ app.worker.prediction.pc = "terminated"
    /\ app.worker.prediction.predictions # <<>>
    /\ app.mgr.predictions = <<>>

\* C22: while a prediction or portfolio worker runs, the dict of price data
\* it reads holds what it held when the worker started (a data-fetch
\* worker reads no price data).
C22_NoConcurrentMutation ==
    app.pc # "idle" =>
        \A k \in {"prediction", "portfolio"} :
            app.worker[k].pc = "running" =>
                app.heap[app.worker[k].current_data] = app.worker[k].seen

\* C25: at most one worker is between its start and the run of its
\* finished slot, and the controls that start a worker are disabled for as
\* long as one is.
C25_OneWorkerAtATime ==
    app.pc # "idle" =>
        /\ Cardinality({k \in WorkerKinds : InFlight(app.worker[k])}) <= 1
        /\ (\E k \in WorkerKinds : InFlight(app.worker[k])) => ~app.ui_enabled

\* The third worker of a session has emitted finished, its slot has not run
\* yet, and the controls are still disabled.
C25_Witness ==
    /\ app.pc = "open"
    /\ app.starts = 3
    /\ app.worker.prediction.pc = "finished"
    /\ ~app.worker.prediction.delivered
    /\ ~app.ui_enabled

NoRepeats(ts) == \A i, j \in DOMAIN ts : i # j => ts[i] # ts[j]

\* C27: while the window is open the ticker list has no repeats and is the
\* list of the keys of the stored data, and a portfolio run that computed
\* had as many tickers as columns.
C27_TickersAreDataKeys ==
    app.pc = "open" =>
        /\ NoRepeats(app.tickers)
        /\ app.tickers = app.heap[app.mgr.current_data]
        /\ app.worker.portfolio.idx = 3 =>
              Len(app.worker.portfolio.tickers) = app.worker.portfolio.n_columns

\* C29: every ticker with a stored prediction has stored price data, and
\* the stored predictions were computed from the dict that is stored now.
C29_PredictionsMatchData ==
    app.pc # "idle" =>
        \A t \in DOMAIN app.mgr.predictions :
            /\ \E i \in DOMAIN app.heap[app.mgr.current_data] :
                  app.heap[app.mgr.current_data][i] = t
            /\ app.mgr.predictions[t].data = app.mgr.current_data

====
